---- MODULE Spec2Model ----
(***************************************************************************)
(* Model of convey: the type registry and conversion graph, the field      *)
(* identifier and planner (src/convey/identifier.py), dialect guessing,    *)
(* the Web lookup cache, and row processing with the invalid-row replay    *)
(* (src/lib/sourceParser.py, src/convey/sourceParser.py).                  *)
(***************************************************************************)
EXTENDS Integers, Sequences, FiniteSets, TLC

VARIABLES
    \* ---- planner (Identifier.get_methods_from) ----
    plan,            \* last call of get_methods_from: target, start, lambdas
    \* ---- field identification (one column of SourceParser.fields) ----
    has_header,      \* SourceParser.has_header
    field_name,      \* str(field): the column's name, a sequence of characters
    samples,         \* samples[i]: the sampled values of the column
    possible_types,  \* Field.possible_types: ordered mapping, a sequence of [type, score]
    identified,      \* Identifier.init has run
    fit,             \* last call of get_fitting_type: target, try_plaintext, result
    \* ---- dialect (Identifier.guess_dialect) ----
    unix_delimiter,  \* csv.unix_dialect.delimiter: a class attribute the fallback writes
    sample,          \* SourceParser.sample: the sampled lines
    guess,           \* last result of guess_dialect
    \* ---- Web ----
    web_cache,       \* Web.cache: url -> 4-part result
    store_text,      \* Web.store_text
    store_html,      \* Web.store_html
    web_requests,    \* number of requests.get calls made per url
    web_first,       \* per url, what the first completed lookup returned
    web_last,        \* last lookup: url, outcome
    \* ---- row processing (SourceParser of src/lib, reset_whois of src/convey) ----
    ranges,          \* self.ranges: prefix -> <<record, kind>>
    ipSeen,          \* self.ipSeen: ip -> prefix
    lineCount,       \* self.lineCount
    hasHeader,       \* self.hasHeader
    method,          \* Config.method
    source,          \* the rows of the source file (self.sourceFile), the header apart
    invalid_file,    \* the rows of the invalid-rows ledger (invalidReg.getPath())
    unknown_file,    \* the rows of the unknown-abusemail ledger (abuseReg.getUnknownPath())
    invalid_count,   \* InvalidRegistry.stat()
    temp_file,       \* the rows of the temporary file a replay streams
    file_pos,        \* number of lines already read of the file being streamed
    counted,         \* what was counted into a registry (self.reg[kind].count)
    pc,              \* position of the processing loop
    last,            \* what _processLine did with the last row
    replay,          \* bookkeeping of the replay in progress
    \* ---- Controller and the registry's switches ----
    disabled_groups, \* the TypeGroups disable() was called on
    methods_now,     \* the keys <<start, target>> the dict `methods` holds now
    is_disabled,     \* the Types whose is_disabled is True
    new_fields,      \* Controller.__init__: the targets parsed from --field
    settings_add,    \* csv.settings["add"]: the targets of the fields added
    ctl,             \* position of the Controller
    \* ---- the output file (SourceParser.prepare_target_file) ----
    settings,        \* SourceParser.settings: split, filter, unique, dialect
    source_file,     \* SourceParser.source_file: None when the input is stdin
    output,          \* Config.get("output")
    is_split,        \* SourceParser.is_split
    target_file,     \* SourceParser.target_file
    out,             \* prepare_target_file has run on the settings as they are
    \* ---- base64 ----
    codec,           \* a text, what it was encoded to and what that was decoded to
    \* ---- the columns (Identifier.get_fitting_source_i, get_column_i) ----
    csv_fields,      \* SourceParser.fields (csv.fields): the possible_types of every column
    first_line_fields, \* SourceParser.first_line_fields: the names of the columns
    asked,           \* last call of an Identifier method about the columns
    \* ---- the stages of a SourceParser (prepare, run_analysis) ----
    parser,          \* the SourceParser: its input, dialect and flags
    at,              \* position of the program in the life of the SourceParser
    \* ---- the value emitted for a computed field ----
    emit,            \* a compiled chain, what it was applied to and what was emitted for the field
    \* ---- the sample (get_sample, set_stdin, Identifier.init) ----
    sampling,        \* a source, the sample read of it and the rows Identifier.init scores
    \* ---- the replay of the ledger of unknown abusemails ----
    path_file,       \* the ledger at Path(cache_dir, Config.UNKNOWN_NAME)
    running_tmp,     \* the file at str(path) + ".running.tmp"
    unknown_mode,    \* Whois.unknown_mode
    stats,           \* self.stats: ipsCzMissing, czUnknownPrefixes
    saved,           \* self.stats as the cache file holds them
    again_pc,        \* the position of the session: menu, process_file
    again_i,         \* the rows of the temporary file streamed so far
    returned         \* the way the last resolve_unknown returned, and the stats before it

planVars  == <<plan>>
identVars == <<has_header, field_name, samples, possible_types, identified, fit>>
dialVars  == <<unix_delimiter, sample, guess>>
webVars   == <<web_cache, store_text, store_html, web_requests, web_first, web_last>>
rowVars   == <<ranges, ipSeen, lineCount, hasHeader, method, source, invalid_file,
               unknown_file, invalid_count, temp_file, file_pos, counted, pc, last,
               replay>>
ctlVars   == <<disabled_groups, methods_now, is_disabled, new_fields, settings_add, ctl>>
outVars   == <<settings, source_file, output, is_split, target_file, out>>
codecVars == <<codec>>
srcVars   == <<csv_fields, first_line_fields, asked>>
lifeVars  == <<parser, at>>
chainVars == <<emit>>
smpVars   == <<sampling>>
againVars == <<path_file, running_tmp, unknown_mode, stats, saved, again_pc, again_i, returned>>
\* the groups of the specifications that follow the Controller's
laterVars == <<outVars, codecVars, srcVars, lifeVars, chainVars, smpVars, againVars>>
vars      == <<planVars, identVars, dialVars, webVars, rowVars, ctlVars, laterVars>>

None == "None"

----------------------------------------------------------------------------
(* Sequence helpers *)

Range(s) == {s[i] : i \in 1..Len(s)}

IndexOf(s, x) == CHOOSE i \in 1..Len(s) : s[i] = x /\ \A j \in 1..(i - 1) : s[j] # x

\* Python's `a in b` for strings: a is a substring of b (the empty string is in every string)
IsSubstr(a, b) ==
    \E k \in 0..(Len(b) - Len(a)) : \A j \in 1..Len(a) : b[k + j] = a[j]

----------------------------------------------------------------------------
(* The type registry *)

\* TypeGroup: the IntEnum values
TypeGroup == [general |-> 1, custom |-> 2, whois |-> 3, dns |-> 4, nmap |-> 5, web |-> 6]

\* `types`: every Type in the order of construction (Type.__init__ appends to `types`)
types ==
    << "whois", "web", "custom", "code", "reg", "netname", "country", "abusemail",
       "prefix", "csirt_contact", "incident_contact", "decoded_text", "text",
       "http_status", "html", "redirects", "ports", "ip", "cidr", "portIP", "anyIP",
       "hostname", "url", "asn", "base64", "base64_encoded", "wrongURL", "plaintext" >>

TypeSet == Range(types)

\* Type.group
group(t) ==
    CASE t \in {"whois", "netname", "country", "abusemail", "prefix", "csirt_contact",
                "incident_contact", "asn"} -> TypeGroup.whois
      [] t \in {"web", "text", "http_status", "html", "redirects"} -> TypeGroup.web
      [] t \in {"custom", "code", "reg"} -> TypeGroup.custom
      [] t = "ports" -> TypeGroup.nmap
      [] OTHER -> TypeGroup.general

\* Type.is_private
is_private(t) == t \in {"whois", "web"}

\* Type.usual_names, each a sequence of characters
usual_names(t) ==
    CASE t = "ip" -> << <<"i","p">>,
                        <<"s","o","u","r","c","e","i","p","a","d","d","r","e","s","s">>,
                        <<"i","p","a","d","d","r","e","s","s">>,
                        <<"s","o","u","r","c","e">> >>
      [] t = "cidr" -> << <<"c","i","d","r">> >>
      [] t = "hostname" -> << <<"f","q","d","n">>,
                              <<"h","o","s","t","n","a","m","e">>,
                              <<"d","o","m","a","i","n">> >>
      [] t = "url" -> << <<"u","r","l">>, <<"u","r","i">>,
                         <<"l","o","c","a","t","i","o","n">> >>
      [] t = "asn" -> << <<"a","s">>, <<"a","s","n">>,
                         <<"a","s","n","u","m","b","e","r">> >>
      [] t = "base64" -> << <<"b","a","s","e","6","4">> >>
      [] t = "plaintext" -> << <<"p","l","a","i","n","t","e","x","t">>,
                               <<"t","e","x","t">> >>
      [] OTHER -> << >>

\* Whether the Type was constructed with an identify_method
has_identify_method(t) ==
    t \in {"ip", "cidr", "portIP", "anyIP", "hostname", "url", "asn", "base64",
           "wrongURL", "plaintext"}

\* The characters of Type.name, for the comparison of names in Type.__lt__
name_chars(t) ==
    CASE t = "ip" -> <<"i","p">>
      [] t = "cidr" -> <<"c","i","d","r">>
      [] t = "portIP" -> <<"p","o","r","t","I","P">>
      [] t = "anyIP" -> <<"a","n","y","I","P">>
      [] t = "hostname" -> <<"h","o","s","t","n","a","m","e">>
      [] t = "url" -> <<"u","r","l">>
      [] t = "asn" -> <<"a","s","n">>
      [] t = "base64" -> <<"b","a","s","e","6","4">>
      [] t = "base64_encoded" -> <<"b","a","s","e","6","4","_","e","n","c","o","d","e","d">>
      [] t = "wrongURL" -> <<"w","r","o","n","g","U","R","L">>
      [] t = "plaintext" -> <<"p","l","a","i","n","t","e","x","t">>
      [] t = "whois" -> <<"w","h","o","i","s">>
      [] t = "web" -> <<"w","e","b">>
      [] t = "custom" -> <<"c","u","s","t","o","m">>
      [] t = "code" -> <<"c","o","d","e">>
      [] t = "reg" -> <<"r","e","g">>
      [] t = "netname" -> <<"n","e","t","n","a","m","e">>
      [] t = "country" -> <<"c","o","u","n","t","r","y">>
      [] t = "abusemail" -> <<"a","b","u","s","e","m","a","i","l">>
      [] t = "prefix" -> <<"p","r","e","f","i","x">>
      [] t = "csirt_contact" -> <<"c","s","i","r","t","_","c","o","n","t","a","c","t">>
      [] t = "incident_contact" ->
            <<"i","n","c","i","d","e","n","t","_","c","o","n","t","a","c","t">>
      [] t = "decoded_text" -> <<"d","e","c","o","d","e","d","_","t","e","x","t">>
      [] t = "text" -> <<"t","e","x","t">>
      [] t = "http_status" -> <<"h","t","t","p","_","s","t","a","t","u","s">>
      [] t = "html" -> <<"h","t","m","l">>
      [] t = "redirects" -> <<"r","e","d","i","r","e","c","t","s">>
      [] t = "ports" -> <<"p","o","r","t","s">>

\* Code points order the characters of a str
CodeOrder ==
    << " ", "\"", "'", ",", ".",
       "0","1","2","3","4","5","6","7","8","9", ";",
       "A","B","C","D","E","F","G","H","I","J","K","L","M","N","O","P","Q","R","S","T",
       "U","V","W","X","Y","Z", "_",
       "a","b","c","d","e","f","g","h","i","j","k","l","m","n","o","p","q","r","s","t",
       "u","v","w","x","y","z", "|" >>

Ord(c) == IndexOf(CodeOrder, c)

\* str.__lt__: lexicographic comparison by code point
StrLt(a, b) ==
    \E k \in 1..(Len(a) + 1) :
        /\ \A j \in 1..(k - 1) : j <= Len(b) /\ a[j] = b[j]
        /\ \/ k = Len(a) + 1 /\ Len(b) >= k
           \/ k <= Len(a) /\ k <= Len(b) /\ Ord(a[k]) < Ord(b[k])

\* Type.__lt__ on two Types: (group, name) < (other.group, other.name)
Type_lt(a, b) ==
    \/ group(a) < group(b)
    \/ group(a) = group(b) /\ StrLt(name_chars(a), name_chars(b))

\* sorted(): the elements of the set S as a sequence ascending by Type.__lt__
RECURSIVE sorted(_)
sorted(S) ==
    IF S = {} THEN << >>
    ELSE LET m == CHOOSE x \in S : \A y \in S \ {x} : Type_lt(x, y)
         IN  <<m>> \o sorted(S \ {m})

\* Types.get_guessable_types (no Type is disabled in this model)
\* the same Types left in the order of `types` (no sorted())
get_guessable_types_unsorted ==
    SelectSeq(types, LAMBDA t : has_identify_method(t) \/ usual_names(t) # << >>)

get_guessable_types ==
    sorted({t \in TypeSet : has_identify_method(t) \/ usual_names(t) # << >>})

----------------------------------------------------------------------------
(* The conversion edges and the graph *)

\* Types._get_methods: the dict, in insertion order; fn names the transformation,
\* "None" is the custom placeholder (no edge is `True` in this version)
methods ==
    << [start |-> "anyIP",     stop |-> "ip",               fn |-> "any_ip_2_ip"],
       [start |-> "portIP",    stop |-> "ip",               fn |-> "port_ip_2_ip"],
       [start |-> "url",       stop |-> "hostname",         fn |-> "Whois.url2hostname"],
       [start |-> "hostname",  stop |-> "ip",               fn |-> "Whois.hostname2ip"],
       [start |-> "url",       stop |-> "ip",               fn |-> "Whois.url2ip"],
       [start |-> "ip",        stop |-> "whois",            fn |-> "Whois"],
       [start |-> "cidr",      stop |-> "ip",               fn |-> "cidr_ip"],
       [start |-> "whois",     stop |-> "prefix",           fn |-> "get0"],
       [start |-> "whois",     stop |-> "asn",              fn |-> "get3"],
       [start |-> "whois",     stop |-> "abusemail",        fn |-> "get6"],
       [start |-> "whois",     stop |-> "country",          fn |-> "get5"],
       [start |-> "whois",     stop |-> "netname",          fn |-> "get4"],
       [start |-> "whois",     stop |-> "csirt_contact",    fn |-> "csirtmails"],
       [start |-> "whois",     stop |-> "incident_contact", fn |-> "get2"],
       [start |-> "base64",    stop |-> "plaintext",        fn |-> "base64decode"],
       [start |-> "plaintext", stop |-> "base64",           fn |-> "b64encode"],
       [start |-> "plaintext", stop |-> "custom",           fn |-> None],
       [start |-> "plaintext", stop |-> "code",             fn |-> None],
       [start |-> "plaintext", stop |-> "reg",              fn |-> None],
       [start |-> "wrongURL",  stop |-> "url",              fn |-> "wrong_url_2_url"],
       [start |-> "hostname",  stop |-> "url",              fn |-> "http_prefix"],
       [start |-> "ip",        stop |-> "url",              fn |-> "http_prefix"],
       [start |-> "url",       stop |-> "web",              fn |-> "Web"],
       [start |-> "web",       stop |-> "http_status",      fn |-> "web_get0"],
       [start |-> "web",       stop |-> "text",             fn |-> "web_get1"],
       [start |-> "web",       stop |-> "html",             fn |-> "web_get2"],
       [start |-> "web",       stop |-> "redirects",        fn |-> "web_get3"],
       [start |-> "hostname",  stop |-> "ports",            fn |-> "nmap"],
       [start |-> "ip",        stop |-> "ports",            fn |-> "nmap"] >>

\* methods[a, b]
method_of(a, b) ==
    LET i == CHOOSE k \in 1..Len(methods) : methods[k].start = a /\ methods[k].stop = b
    IN  methods[i].fn

\* The edges added to the graph: every key of `methods` whose value is not True
graph_edges == {<<methods[k].start, methods[k].stop>> :
                    k \in {j \in 1..Len(methods) : methods[j].fn # "True"}}

\* One round of the search from the target over the reversed edges:
\* dist maps the Types settled so far to their hop count
RECURSIVE dijkstra_search(_, _)
dijkstra_search(dist, d) ==
    LET frontier == {a \in TypeSet \ DOMAIN dist :
                        \E b \in DOMAIN dist : dist[b] = d /\ <<a, b>> \in graph_edges}
    IN  IF frontier = {} THEN dist
        ELSE dijkstra_search([t \in DOMAIN dist \cup frontier |->
                                 IF t \in DOMAIN dist THEN dist[t] ELSE d + 1], d + 1)

\* graph.dijkstra(target): the Types that reach target, each with its hop count
dijkstra_of(target) == dijkstra_search([t \in {target} |-> 0], 0)

DistanceMaps == [t \in TypeSet |-> dijkstra_of(t)]

dijkstra(target) == DistanceMaps[target]

\* graph.dijkstra(target, start=start): the Types from start to target along a
\* shortest path, the earliest registered edge first; << >> when there is no path
RECURSIVE dijkstra_path(_, _)
dijkstra_path(target, start) ==
    LET dist == dijkstra(target) IN
    IF start \notin DOMAIN dist THEN << >>
    ELSE IF start = target THEN <<target>>
    ELSE LET k == CHOOSE i \in 1..Len(methods) :
                    /\ methods[i].start = start
                    /\ methods[i].fn # "True"
                    /\ methods[i].stop \in DOMAIN dist
                    /\ dist[methods[i].stop] = dist[start] - 1
                    /\ \A j \in 1..(i - 1) :
                          ~ ( /\ methods[j].start = start
                              /\ methods[j].fn # "True"
                              /\ methods[j].stop \in DOMAIN dist
                              /\ dist[methods[j].stop] = dist[start] - 1 )
         IN  <<start>> \o dijkstra_path(target, methods[k].stop)

----------------------------------------------------------------------------
(* Identifier.get_methods_from, for a target that is not of TypeGroup.custom *)

\* the loop over range(len(path) - 1), from index i (1-based) on
RECURSIVE lambdas_from(_, _)
lambdas_from(path, i) ==
    IF i > Len(path) - 1 THEN << >>
    ELSE LET lambda_ == method_of(path[i], path[i + 1])
         IN  IF lambda_ = "True" THEN lambdas_from(path, i + 1)
             ELSE <<lambda_>> \o lambdas_from(path, i + 1)

\* a loop that stops one edge early
RECURSIVE lambdas_short(_, _)
lambdas_short(path, i) ==
    IF i > Len(path) - 2 THEN << >>
    ELSE <<method_of(path[i], path[i + 1])>> \o lambdas_short(path, i + 1)

\* the single-step chain of a TypeGroup.custom target
custom_chain(target) ==
    CASE target = "custom" -> <<"getattr(module, name)">>
      [] target = "code" -> <<"custom_code">>
      [] target = "reg" -> <<"regex">>

get_methods_from_short(target, start) ==
    IF group(target) = TypeGroup.custom THEN custom_chain(target)
    ELSE lambdas_short(dijkstra_path(target, start), 1)

get_methods_from(target, start) ==
    IF group(target) = TypeGroup.custom THEN custom_chain(target)
    ELSE lambdas_from(dijkstra_path(target, start), 1)

----------------------------------------------------------------------------
(* Field identification: Identifier.init for one column *)

\* Sampled cell values; each stands for the strings the identification
\* predicates treat alike
Values == {"1.2.3.4", "1.2.3.4.80", "http://1.2.3.4/", "aGVsbG8=", "hello"}

\* Type.identify_method applied to a sampled value: check_ip, reIpWithPort.match,
\* reAnyIp.search and not check_ip, reFqdn.match, reUrl.match and no "[.]", ...
identify_method(t, val) ==
    CASE t = "ip" -> val = "1.2.3.4"
      [] t = "portIP" -> val = "1.2.3.4.80"
      [] t = "anyIP" -> val \in {"1.2.3.4.80", "http://1.2.3.4/"}
      [] t = "url" -> val = "http://1.2.3.4/"
      [] t = "base64" -> val = "aGVsbG8="
      [] OTHER -> FALSE

\* Column names the header line may give
FieldNames ==
    { <<"i","p">>,
      <<"'","U","R","L"," ","x","'">>,
      <<"z">> }

\* str.lower on one character
lower(c) ==
    LET upper == <<"A","B","C","D","E","F","G","H","I","J","K","L","M","N","O","P","Q",
                   "R","S","T","U","V","W","X","Y","Z">>
        lowered == <<"a","b","c","d","e","f","g","h","i","j","k","l","m","n","o","p","q",
                     "r","s","t","u","v","w","x","y","z">>
    IN  IF c \in Range(upper) THEN lowered[IndexOf(upper, c)] ELSE c

\* str(field).replace(" ", "").replace("'", "").replace('"', "").lower()
RECURSIVE normalise(_)
normalise(s) ==
    IF s = << >> THEN << >>
    ELSE IF Head(s) \in {" ", "'", "\""} THEN normalise(Tail(s))
    ELSE <<lower(Head(s))>> \o normalise(Tail(s))

\* the header test of init: has_header and `s in n or n in s` for a usual name n
header_match(t, hdr, name) ==
    /\ hdr
    /\ \E k \in 1..Len(usual_names(t)) :
          \/ IsSubstr(normalise(name), usual_names(t)[k])
          \/ IsSubstr(usual_names(t)[k], normalise(name))

\* hits: the sampled values the Type's identify_method accepts
hits(t, vals) == Cardinality({i \in 1..Len(vals) : identify_method(t, vals[i])})

\* percent == 0 (a ZeroDivisionError on an empty sample gives percent = 0)
percent_is_zero(t, vals) == Len(vals) = 0 \/ hits(t, vals) = 0

\* percent > 0.6 and percent > 0.8, for percent = hits / len(samples[i])
percent_over_60(t, vals) == Len(vals) > 0 /\ 10 * hits(t, vals) > 6 * Len(vals)
percent_over_80(t, vals) == Len(vals) > 0 /\ 10 * hits(t, vals) > 8 * Len(vals)

\* the score init computes for a Type it does not skip
score_of(t, hdr, name, vals) ==
    (IF header_match(t, hdr, name) THEN 1 ELSE 0)
    + (IF percent_over_60(t, vals) THEN 1 ELSE 0)
    + (IF percent_over_80(t, vals) THEN 1 ELSE 0)

\* the dict possible_types as the loop over get_guessable_types fills it:
\* a Type with percent == 0 is skipped by `continue`
RECURSIVE scored_types(_, _, _, _)
scored_types(ts, hdr, name, vals) ==
    IF ts = << >> THEN << >>
    ELSE IF percent_is_zero(Head(ts), vals)
         THEN scored_types(Tail(ts), hdr, name, vals)
         ELSE <<[type |-> Head(ts), score |-> score_of(Head(ts), hdr, name, vals)]>>
              \o scored_types(Tail(ts), hdr, name, vals)

\* sorted(items, key=score, reverse=True): stable, so equal scores keep their order
RECURSIVE sorted_by_score(_, _)
sorted_by_score(items, s) ==
    IF s < 0 THEN << >>
    ELSE SelectSeq(items, LAMBDA e : e.score = s) \o sorted_by_score(items, s - 1)

\* a sort that puts the smallest score first
RECURSIVE sorted_ascending(_, _)
sorted_ascending(items, s) ==
    IF s < 0 THEN << >>
    ELSE sorted_ascending(items, s - 1) \o SelectSeq(items, LAMBDA e : e.score = s)

init_ascending(hdr, name, vals) ==
    sorted_ascending(scored_types(get_guessable_types, hdr, name, vals), 3)

\* the value init leaves in field.possible_types (a fresh Field holds {})
init_possible_types(hdr, name, vals) ==
    sorted_by_score(scored_types(get_guessable_types, hdr, name, vals), 3)

\* Identifier.get_fitting_type: the loop over possible_fields with _min and fitting_type
RECURSIVE fitting_loop(_, _, _, _)
fitting_loop(possible_fields, dist, min_, fitting_type) ==
    IF possible_fields = << >> THEN fitting_type
    ELSE LET type_ == Head(possible_fields) IN
         IF type_ \notin DOMAIN dist
         THEN fitting_loop(Tail(possible_fields), dist, min_, fitting_type)
         ELSE IF dist[type_] < min_
              THEN fitting_loop(Tail(possible_fields), dist, dist[type_], type_)
              ELSE fitting_loop(Tail(possible_fields), dist, min_, fitting_type)

\* a loop that also replaces the choice on an equal distance
RECURSIVE fitting_loop_le(_, _, _, _)
fitting_loop_le(possible_fields, dist, min_, fitting_type) ==
    IF possible_fields = << >> THEN fitting_type
    ELSE LET type_ == Head(possible_fields) IN
         IF type_ \in DOMAIN dist /\ dist[type_] <= min_
         THEN fitting_loop_le(Tail(possible_fields), dist, dist[type_], type_)
         ELSE fitting_loop_le(Tail(possible_fields), dist, min_, fitting_type)

TypesOf(pt) == [i \in 1..Len(pt) |-> pt[i].type]

get_fitting_type_le(pt, target_field, try_plaintext) ==
    fitting_loop_le(IF try_plaintext THEN TypesOf(pt) \o <<"plaintext">> ELSE TypesOf(pt),
                    dijkstra(target_field), 999, None)

get_fitting_type(pt, target_field, try_plaintext) ==
    fitting_loop(IF try_plaintext THEN TypesOf(pt) \o <<"plaintext">> ELSE TypesOf(pt),
                 dijkstra(target_field), 999, None)

----------------------------------------------------------------------------
(* Bounds *)

MaxSamples == 3      \* sampled values per column

\* all sequences over S of length at most n
SeqsUpTo(S, n) == UNION {[1..k -> S] : k \in 0..n}

----------------------------------------------------------------------------
(* Values of the variables a specification does not use *)

NoCall == [op |-> "none"]

PlanIdle == plan = NoCall

IdentIdle ==
    /\ has_header = FALSE
    /\ field_name = << >>
    /\ samples = << >>
    /\ possible_types = << >>
    /\ identified = FALSE
    /\ fit = NoCall

DialIdle ==
    /\ unix_delimiter = ","
    /\ sample = << >>
    /\ guess = NoCall

WebIdle ==
    /\ web_cache = << >>
    /\ store_text = TRUE
    /\ store_html = TRUE
    /\ web_requests = << >>
    /\ web_first = << >>
    /\ web_last = NoCall

CtlIdle ==
    /\ disabled_groups = {}
    /\ methods_now = graph_edges
    /\ is_disabled = {}
    /\ new_fields = << >>
    /\ settings_add = << >>
    /\ ctl = "args"

OutIdle ==
    /\ settings = NoCall
    /\ source_file = None
    /\ output = None
    /\ is_split = FALSE
    /\ target_file = None
    /\ out = "idle"

CodecIdle == codec = NoCall

SrcIdle ==
    /\ csv_fields = << >>
    /\ first_line_fields = << >>
    /\ asked = NoCall

LifeIdle ==
    /\ parser = NoCall
    /\ at = "idle"

ChainIdle ==
    /\ emit = NoCall

SmpIdle ==
    /\ sampling = NoCall

\* no file at a path, and a file with its rows
NoFile == [exists |-> FALSE, rows |-> << >>]

File(rows) == [exists |-> TRUE, rows |-> rows]

\* self.stats = defaultdict(set)
NoStats == [ipsCzMissing |-> {}, czUnknownPrefixes |-> {}]

\* resolve_unknown has not returned in this session
NotReturned == [how |-> "", before |-> NoStats]

AgainIdle ==
    /\ path_file = NoFile /\ running_tmp = NoFile /\ unknown_mode = FALSE
    /\ stats = NoStats /\ saved = NoStats /\ again_pc = "idle" /\ again_i = 0
    /\ returned = NotReturned

LaterIdle == OutIdle /\ CodecIdle /\ SrcIdle /\ LifeIdle /\ ChainIdle /\ SmpIdle /\ AgainIdle

RowIdle ==
    /\ ranges = << >>
    /\ ipSeen = << >>
    /\ lineCount = 0
    /\ hasHeader = FALSE
    /\ method = "default"
    /\ source = << >>
    /\ invalid_file = << >>
    /\ unknown_file = << >>
    /\ invalid_count = 0
    /\ temp_file = << >>
    /\ file_pos = 0
    /\ counted = {}
    /\ pc = "idle"
    /\ last = NoCall
    /\ replay = NoCall

----------------------------------------------------------------------------
(* Planning: calls of Identifier.get_methods_from(target, start, None) *)

PlanInit == PlanIdle /\ IdentIdle /\ DialIdle /\ WebIdle /\ RowIdle /\ CtlIdle /\ LaterIdle

GetMethodsFrom ==
    \E target \in TypeSet, start \in TypeSet :
        /\ group(target) = TypeGroup.custom \/ start \in DOMAIN dijkstra(target)
        /\ plan' = [op |-> "get_methods_from", target |-> target, start |-> start,
                    lambdas |-> get_methods_from(target, start)]
        /\ UNCHANGED <<identVars, dialVars, webVars, rowVars, ctlVars, laterVars>>

PlanNext == GetMethodsFrom

SpecPlan == PlanInit /\ [][PlanNext]_vars

\* C1: for a target that is not custom and a start that reaches it, the chain
\* get_methods_from returns has as many functions as the hop distance
\* graph.dijkstra(target) reports for start (so target = start gives the empty chain)
C1_ChainLengthIsDistance ==
    (plan.op = "get_methods_from" /\ group(plan.target) # TypeGroup.custom)
        => /\ plan.start \in DOMAIN dijkstra(plan.target)
           /\ Len(plan.lambdas) = dijkstra(plan.target)[plan.start]
           /\ (plan.start = plan.target => plan.lambdas = << >>)

\* a three-hop plan has been compiled: hostname -> ip -> whois -> country
C1_Witness ==
    /\ plan.op = "get_methods_from"
    /\ plan.target = "country" /\ plan.start = "hostname"
    /\ plan.lambdas = <<"Whois.hostname2ip", "Whois", "get5">>

----------------------------------------------------------------------------
(* Identification of a column and the choice of its fitting type *)

Init ==
    /\ has_header \in BOOLEAN
    /\ field_name \in FieldNames
    /\ samples \in SeqsUpTo(Values, MaxSamples)
    /\ possible_types = << >>
    /\ identified = FALSE
    /\ fit = NoCall
    /\ PlanIdle /\ DialIdle /\ WebIdle /\ RowIdle /\ CtlIdle /\ LaterIdle

\* Identifier.init, for the column
Identifier_init ==
    /\ ~identified
    /\ LET pt == init_possible_types(has_header, field_name, samples)
       IN  possible_types' = IF pt # << >> THEN pt ELSE possible_types
    /\ identified' = TRUE
    /\ UNCHANGED <<has_header, field_name, samples, fit>>
    /\ UNCHANGED <<planVars, dialVars, webVars, rowVars, ctlVars, laterVars>>

\* Identifier.get_fitting_type(source_field_i, target_field, try_plaintext)
GetFittingType ==
    \E target_field \in TypeSet, try_plaintext \in BOOLEAN :
        /\ identified
        /\ fit' = [op |-> "get_fitting_type", target |-> target_field,
                   try_plaintext |-> try_plaintext,
                   result |-> get_fitting_type(possible_types, target_field, try_plaintext)]
        /\ UNCHANGED <<has_header, field_name, samples, possible_types, identified>>
        /\ UNCHANGED <<planVars, dialVars, webVars, rowVars, ctlVars, laterVars>>

Next == Identifier_init \/ GetFittingType

Spec == Init /\ [][Next]_vars

\* the Types get_fitting_type considers, in the order of its loop
Considered == IF fit.try_plaintext THEN TypesOf(possible_types) \o <<"plaintext">>
              ELSE TypesOf(possible_types)

\* the positions of the considered Types that reach the target
Reaching == {i \in 1..Len(Considered) : Considered[i] \in DOMAIN dijkstra(fit.target)}

\* the positions of the column's candidate Types that reach the target
CandidatesReaching ==
    {i \in 1..Len(possible_types) : possible_types[i].type \in DOMAIN dijkstra(fit.target)}

\* C2: get_fitting_type(column, target) returns a candidate Type of minimal distance
\* to the target among the candidates that reach it, on equal distance the one of
\* highest confidence (the earliest in the ordered mapping), and no type when none of
\* the considered Types reaches the target
C2_FittingTypeIsNearestCandidate ==
    fit.op = "get_fitting_type" =>
        LET dist == dijkstra(fit.target) IN
        /\ (Reaching = {}) <=> (fit.result = None)
        /\ (~fit.try_plaintext /\ CandidatesReaching # {}) =>
              \E i \in CandidatesReaching :
                  /\ fit.result = possible_types[i].type
                  /\ \A j \in CandidatesReaching :
                        /\ dist[possible_types[i].type] <= dist[possible_types[j].type]
                        /\ dist[possible_types[i].type] = dist[possible_types[j].type]
                              => /\ i <= j
                                 /\ possible_types[i].score >= possible_types[j].score

\* two candidates of equal score are equally near the target ip, and the first was
\* returned although a candidate of lower position reaches the target too
C2_Witness ==
    /\ fit.op = "get_fitting_type" /\ ~fit.try_plaintext
    /\ fit.target = "ip" /\ fit.result = "anyIP"
    /\ \E j \in 2..Len(possible_types) : possible_types[j].type = "portIP"

\* C3: with try_plaintext, whenever a candidate Type of the column reaches the
\* target, the returned type is one of the candidates and not plaintext
C3_PlaintextOnlyAsLastResort ==
    (fit.op = "get_fitting_type" /\ fit.try_plaintext /\ CandidatesReaching # {})
        => /\ fit.result \in Range(TypesOf(possible_types))
           /\ fit.result # "plaintext"

h_of(t) == IF header_match(t, has_header, field_name) THEN 1 ELSE 0
a_of(t) == IF Len(samples) > 0 /\ 10 * hits(t, samples) > 6 * Len(samples) THEN 1 ELSE 0
b_of(t) == IF Len(samples) > 0 /\ 10 * hits(t, samples) > 8 * Len(samples) THEN 1 ELSE 0

IsCandidate(t) == \E i \in 1..Len(possible_types) : possible_types[i].type = t

ScoreIn(t) == possible_types[CHOOSE i \in 1..Len(possible_types) : possible_types[i].type = t].score

\* C4: after init the score of every identifiable Type is h + a + b (a Type that is
\* not stored counts as score 0), and a Type whose header hint matches is a candidate
\* with score at least 1 whatever the sampled values are
C4_ScoreIsHeaderPlusThresholds ==
    identified =>
        \A t \in Range(get_guessable_types) :
            /\ IsCandidate(t) => ScoreIn(t) = h_of(t) + a_of(t) + b_of(t)
            /\ ~IsCandidate(t) => h_of(t) + a_of(t) + b_of(t) = 0
            /\ h_of(t) = 1 => (IsCandidate(t) /\ ScoreIn(t) >= 1)

\* C5: after init every Type stored for the column has score at least 1
C5_NoZeroScoreCandidate ==
    identified => \A i \in 1..Len(possible_types) : possible_types[i].score >= 1

\* position of a Type in `types`, the order of registration
RegistrationIndex(t) == IndexOf(types, t)

\* C6 as stated: candidates are in descending score, equal scores in the order of
\* registration
C6_TiesInRegistrationOrder ==
    identified =>
        \A i, j \in 1..Len(possible_types) :
            i < j => /\ possible_types[i].score >= possible_types[j].score
                     /\ possible_types[i].score = possible_types[j].score
                           => RegistrationIndex(possible_types[i].type)
                                < RegistrationIndex(possible_types[j].type)

\* C6 amended: candidates are in descending score, equal scores in the order of
\* Types.get_guessable_types, that is ascending by (group, name) as Type.__lt__ compares
C6_TiesInGroupNameOrder ==
    identified =>
        \A i, j \in 1..Len(possible_types) :
            i < j => /\ possible_types[i].score >= possible_types[j].score
                     /\ possible_types[i].score = possible_types[j].score
                           => \/ group(possible_types[i].type) < group(possible_types[j].type)
                              \/ /\ group(possible_types[i].type) = group(possible_types[j].type)
                                 /\ StrLt(name_chars(possible_types[i].type),
                                          name_chars(possible_types[j].type))

\* init stored three candidates, two of them tied below the first, and the tied pair
\* stands against its order of registration (anyIP was registered after portIP)
C6_Witness ==
    /\ identified
    /\ Len(possible_types) >= 3
    /\ \E i \in 1..Len(possible_types), j \in 1..Len(possible_types) :
          /\ i < j
          /\ possible_types[i].type = "anyIP" /\ possible_types[j].type = "portIP"
          /\ possible_types[i].score = possible_types[j].score
          /\ \E k \in 1..Len(possible_types) : possible_types[k].score > possible_types[i].score

----------------------------------------------------------------------------
(* Dialect guessing: Identifier.guess_dialect *)

MaxLines == 2        \* sampled lines (the program samples up to 9)

\* Lines a sample may hold, as sequences of characters
SampleLines ==
    { <<"1", ".", "2", ".", "3">>,
      <<"1", ".", "1", ".", "1", ",">>,
      <<"a", ",", ",", "b">>,
      <<"a", ";", "b">>,
      << >> }

\* "".join(sample), without the line ends
RECURSIVE join(_)
join(smp) == IF smp = << >> THEN << >> ELSE Head(smp) \o join(Tail(smp))

\* s.find(sub) > -1
find(s, sub) == IsSubstr(sub, s)

\* the line the fallback inspects: sample[1], or sample[0] on IndexError
fallback_line(smp) == IF Len(smp) >= 2 THEN smp[2] ELSE smp[1]

\* the two loops over (",", ";", "|"): the doubled sign first, then the single one
fallback_delimiter(s) ==
    IF find(s, <<",", ",">>) THEN ","
    ELSE IF find(s, <<";", ";">>) THEN ";"
    ELSE IF find(s, <<"|", "|">>) THEN "|"
    ELSE IF find(s, <<",">>) THEN ","
    ELSE IF find(s, <<";">>) THEN ";"
    ELSE IF find(s, <<"|">>) THEN "|"
    ELSE ""

\* the rule kept out: the delimiter is returned as it was found
resolve_delimiter_unchanged(delimiter, sample_text) == delimiter

\* if dialect.delimiter == "." and "," not in sample_text: dialect.delimiter = ","
resolve_delimiter(delimiter, sample_text) ==
    IF delimiter = "." /\ ~find(sample_text, <<",">>) THEN "," ELSE delimiter

\* the rule kept out: has_header is returned as the Sniffer answered
resolve_header_unchanged(smp, has_hdr) == has_hdr

\* if len(sample) == 1: has_header = False
resolve_header(smp, has_hdr) == IF Len(smp) = 1 THEN FALSE ELSE has_hdr

\* number of occurrences of the character c in a line
count(c, line) == Cardinality({i \in 1..Len(line) : line[i] = c})

\* csv.Sniffer._guess_delimiter on a sample of at most ten lines without quote
\* characters: the characters that occur equally often, and at least once, in every
\* non-empty line
consistent_delimiters(smp) ==
    LET data == SelectSeq(smp, LAMBDA line : line # << >>)
    IN  {c \in Range(join(data)) :
            \A i \in 1..Len(data) : count(c, data[i]) = count(c, data[1])}

\* csv.Sniffer.sniff(sample_text).delimiter, "" when it raises Error: the only
\* consistent character, else the first of the preferred ones (',', ';' of those the
\* samples hold), else the greatest by (frequency, code point)
sniff(smp) ==
    LET delims == consistent_delimiters(smp)
        data   == SelectSeq(smp, LAMBDA line : line # << >>)
        freq(c) == count(c, data[1])
    IN  IF delims = {} THEN ""
        ELSE IF "," \in delims THEN ","
        ELSE IF ";" \in delims THEN ";"
        ELSE CHOOSE c \in delims :
                \A d \in delims \ {c} :
                    \/ freq(d) < freq(c)
                    \/ freq(d) = freq(c) /\ Ord(d) < Ord(c)

\* what sniff and has_header answer on a sample: has_header is left to the Sniffer
SnifferOutcomes(smp) ==
    IF sniff(smp) = ""
    THEN {[error |-> TRUE, delimiter |-> "", has_header |-> FALSE]}
    ELSE {[error |-> FALSE, delimiter |-> sniff(smp), has_header |-> hh] : hh \in BOOLEAN}

DialInit ==
    /\ unix_delimiter = ","
    /\ sample \in SeqsUpTo(SampleLines, MaxLines) \ {<< >>}
    /\ guess = NoCall
    /\ PlanIdle /\ IdentIdle /\ WebIdle /\ RowIdle /\ CtlIdle /\ LaterIdle

\* Identifier.guess_dialect(sample), the Sniffer answering
guess_dialect ==
    \E o \in SnifferOutcomes(sample) :
        /\ guess.op # "quit"
        /\ IF o.error /\ join(sample) = << >>
           THEN \* "The file seems empty": quit()
                /\ guess' = [op |-> "quit"]
                /\ UNCHANGED unix_delimiter
           ELSE LET fb    == fallback_delimiter(fallback_line(sample))
                    found == IF ~o.error THEN o.delimiter
                             ELSE IF fb # "" THEN fb ELSE unix_delimiter
                    final == resolve_delimiter(found, join(sample))
                IN  /\ guess' = [op |-> "guess_dialect",
                                 sample |-> sample,
                                 via |-> IF o.error THEN "fallback" ELSE "sniffer",
                                 found |-> found,
                                 sniffed_header |-> IF o.error THEN FALSE
                                                    ELSE o.has_header,
                                 delimiter |-> final,
                                 has_header |-> resolve_header(sample,
                                                   IF o.error THEN FALSE ELSE o.has_header)]
                    \* the fallback's dialect is the class csv.unix_dialect itself
                    /\ unix_delimiter' = IF o.error THEN final ELSE unix_delimiter
        /\ UNCHANGED sample
        /\ UNCHANGED <<planVars, identVars, webVars, rowVars, ctlVars, laterVars>>

\* SourceParser.prepare: the delimiter given by the configuration or typed by the
\* user is written into the dialect guess_dialect returned
prepare_set_delimiter ==
    \E d \in {",", ";", "."} :
        /\ guess.op = "guess_dialect"
        /\ guess.via = "fallback"
        /\ unix_delimiter' = d
        /\ UNCHANGED <<sample, guess>>
        /\ UNCHANGED <<planVars, identVars, webVars, rowVars, ctlVars, laterVars>>

\* SourceParser.__init__ for another source: a new sample is read
new_source ==
    \E smp \in SeqsUpTo(SampleLines, MaxLines) \ {<< >>} :
        /\ guess.op = "guess_dialect"
        /\ sample' = smp
        /\ guess' = NoCall
        /\ UNCHANGED unix_delimiter
        /\ UNCHANGED <<planVars, identVars, webVars, rowVars, ctlVars, laterVars>>

DialNext == guess_dialect \/ prepare_set_delimiter \/ new_source

SpecDialect == DialInit /\ [][DialNext]_vars

\* C7 as stated: for a sample that contains a comma the resolved delimiter is not '.'
C7_NoDotWhenComma ==
    (guess.op = "guess_dialect" /\ find(join(guess.sample), <<",">>))
        => guess.delimiter # "."

\* C7 amended: for a sample that contains no comma the resolved delimiter is not '.'
\* ('.' is returned only when the sample contains a comma)
C7_NoDotWithoutComma ==
    (guess.op = "guess_dialect" /\ ~find(join(guess.sample), <<",">>))
        => guess.delimiter # "."

\* the sample has no comma, '.' was found as the delimiter and ',' was returned
C7_Witness ==
    /\ guess.op = "guess_dialect"
    /\ ~find(join(guess.sample), <<",">>)
    /\ guess.found = "."
    /\ guess.delimiter = ","

\* C19: for a sample of a single line guess_dialect returns has_header = False,
\* whatever the Sniffer answered
C19_SingleLineHasNoHeader ==
    (guess.op = "guess_dialect" /\ Len(guess.sample) = 1) => ~guess.has_header

\* a single line the Sniffer took for a header
C19_Witness ==
    /\ guess.op = "guess_dialect"
    /\ Len(guess.sample) = 1
    /\ guess.sniffed_header
    /\ ~guess.has_header

(* Web scraping with a cache: class Web *)

MaxRequests == 2     \* HTTP requests followed per URL
MaxHistory == 2      \* responses in response.history

Urls == {"http://a/", "http://b/"}

\* what the fields asked for may be (Web.init looks for Types.html and Types.text)
WebFieldTypes == {"html", "text", "hostname"}

\* what requests.get(url, timeout=3) does: raises IOError (a timeout included), or
\* answers with a status code, a body and the responses it was redirected through
HttpOutcomes ==
    {[error |-> TRUE, status |-> "timed out", history |-> 0]}
        \cup {[error |-> FALSE, status |-> st, history |-> h] :
                 st \in {"200", "404"}, h \in 0..MaxHistory}

\* Web.init(fields)
Web_init_flags(fields) ==
    IF fields # {}
    THEN [html |-> "html" \in fields, text |-> "text" \in fields]
    ELSE [html |-> TRUE, text |-> TRUE]

\* the text kept of a response: BeautifulSoup's text, or None
Web_text(st_text) == IF st_text THEN "text" ELSE None

\* for res in response.history[1:]: redirects = f"REDIRECT ..." + text
\* raises TypeError when text is None
Web_raises(o, st_text) == ~o.error /\ o.history >= 2 /\ Web_text(st_text) = None

Web_redirects(o, st_text) ==
    IF o.history >= 2 THEN "REDIRECT " \o Web_text(st_text) ELSE ""

\* self.get = [http status | error, shortened text, original html, redirects]
Web_get(o, st_text, st_html) ==
    IF o.error
    THEN <<o.status, None, None, None>>
    ELSE <<o.status, Web_text(st_text), IF st_html THEN "html" ELSE None,
           Web_redirects(o, st_text)>>

WebInit ==
    /\ web_cache = << >>
    /\ store_html = TRUE
    /\ store_text = TRUE
    /\ web_requests = [u \in Urls |-> 0]
    /\ web_first = << >>
    /\ web_last = NoCall
    /\ PlanIdle /\ IdentIdle /\ DialIdle /\ RowIdle /\ CtlIdle /\ LaterIdle

\* Web.init(fields)
Web_init ==
    \E fields \in SUBSET WebFieldTypes :
        /\ store_html' = Web_init_flags(fields).html
        /\ store_text' = Web_init_flags(fields).text
        /\ UNCHANGED <<web_cache, web_requests, web_first, web_last>>
        /\ UNCHANGED <<planVars, identVars, dialVars, rowVars, ctlVars, laterVars>>

\* Web(url) for a url in the cache
Web_cached ==
    \E url \in Urls :
        /\ url \in DOMAIN web_cache
        /\ web_last' = [op |-> "Web", url |-> url, requested |-> FALSE,
                        raised |-> FALSE, get |-> web_cache[url]]
        /\ web_first' = IF url \in DOMAIN web_first THEN web_first
                        ELSE web_first @@ (url :> web_cache[url])
        /\ UNCHANGED <<web_cache, store_html, store_text, web_requests>>
        /\ UNCHANGED <<planVars, identVars, dialVars, rowVars, ctlVars, laterVars>>

\* Web(url) for a url not in the cache: the request is made
Web_request ==
    \E url \in Urls, o \in HttpOutcomes :
        /\ url \notin DOMAIN web_cache
        /\ web_requests[url] < MaxRequests
        /\ web_requests' = [web_requests EXCEPT ![url] = @ + 1]
        /\ IF Web_raises(o, store_text)
           THEN \* TypeError leaves __init__ before self.cache[url] = self.get
                /\ web_last' = [op |-> "Web", url |-> url, requested |-> TRUE,
                                raised |-> TRUE, get |-> << >>]
                /\ UNCHANGED <<web_cache, web_first>>
           ELSE LET get == Web_get(o, store_text, store_html)
                IN  /\ web_last' = [op |-> "Web", url |-> url, requested |-> TRUE,
                                    raised |-> FALSE, get |-> get]
                    /\ web_cache' = web_cache @@ (url :> get)
                    /\ web_first' = IF url \in DOMAIN web_first THEN web_first
                                    ELSE web_first @@ (url :> get)
        /\ UNCHANGED <<store_html, store_text>>
        /\ UNCHANGED <<planVars, identVars, dialVars, rowVars, ctlVars, laterVars>>

WebNext == Web_init \/ Web_cached \/ Web_request

SpecWeb == WebInit /\ [][WebNext]_vars

\* C8: a URL is requested at most once, by its first lookup; the outcome of a request
\* made is in the cache, after a success and after an I/O error alike; and a lookup
\* of a URL looked up before returns the result the first lookup returned
C8_OneRequestPerUrl ==
    /\ \A u \in Urls : web_requests[u] <= 1
    /\ \A u \in Urls : web_requests[u] >= 1 => u \in DOMAIN web_cache
    /\ web_last.op = "Web" =>
          /\ ~web_last.raised
          /\ web_last.get = web_first[web_last.url]
          /\ web_last.get = web_cache[web_last.url]

----------------------------------------------------------------------------
(* Row processing: SourceParser._processLine and the replays *)

MaxRows == 2         \* rows of the source file

ValidIps == {"1.1.1.1", "1.1.1.2", "2.2.2.2"}

\* self.ipColumn, counted from 1 (no host column, no ASN column)
ipColumn == 2

\* row.split(self.delimiter) of a row with the address ip in the IP column
Row(ip) == <<"a", ip>>

\* a row with fewer fields than the header: the IP column is missing
ShortRow == <<"a">>

\* the rows of a file, as row.split(self.delimiter) sees them
Rows == {Row(ip) : ip \in ValidIps \cup {"bad"}} \cup {ShortRow}

\* the row has the IP column and a well-formed address in it
valid_row(row) == Len(row) >= ipColumn /\ row[ipColumn] \in ValidIps

Methods == {"default", "unique_ip", "unique_file"}

\* what a block is known by: <<record, kind>>
Pairs == {<<"abuse@isp", "local">>, <<"unknown", "local">>, <<"de", "foreign">>}

\* Whois.checkIp(ip)
checkIp(ip) == ip \in ValidIps

\* the network block that holds a well-formed address
BlockOf(ip) == IF ip = "2.2.2.2" THEN "2.2.2.0/24" ELSE "1.1.1.0/24"

\* ip in prefix
in_prefix(ip, prefix) == checkIp(ip) /\ BlockOf(ip) = prefix

\* Whois(ip).analyze(): the block found (or none), its kind and record, or an
\* exception on what is no address
analyze(ip) ==
    {[raised |-> FALSE, prefix |-> p, record |-> pr[1], kind |-> pr[2]] :
        p \in (IF checkIp(ip) THEN {BlockOf(ip), None} ELSE {None}), pr \in Pairs}
      \cup (IF checkIp(ip) THEN {}
            ELSE {[raised |-> TRUE, prefix |-> None, record |-> "", kind |-> ""]})

\* Whois(ip).resolveUnknownMail()
resolveUnknownMail(ip) == {"unknown", "abuse@isp"}

\* for prefix, o in self.ranges.items(): if ip in prefix: found
find_prefix(ip, rngs) ==
    LET hit == {p \in DOMAIN rngs : in_prefix(ip, p)}
    IN  IF hit = {} THEN None ELSE CHOOSE p \in hit : TRUE

\* the registries' files and counts as one record
registries == [invalid_file |-> invalid_file, invalid_count |-> invalid_count,
               unknown_file |-> unknown_file, counted |-> counted]

\* self.invalidReg.count(row)
InvalidRegistry_count(reg, row) ==
    [reg EXCEPT !.invalid_file = Append(@, row), !.invalid_count = @ + 1]

\* self.reg[kind].count(record, ip, prefix, row): a local row with no abusemail
\* goes to the unknown file
Registry_count(reg, kind, record, prefix, row) ==
    [reg EXCEPT !.counted = @ \cup {[row |-> row, record |-> record, kind |-> kind]},
                !.unknown_file = IF kind = "local" /\ record = "unknown"
                                 THEN Append(@, row) ELSE @]

\* what one call of _processLine leaves behind
Effect(rngs, seen_map, reg, l) ==
    [ranges |-> rngs, ipSeen |-> seen_map, reg |-> reg, last |-> l]

\* Whois is asked about every row of the normal mode
needs_analyze_always(unknownMode, found) == ~unknownMode

\* if not unknownMode: ... if found == False: Whois(ip).analyze()
needs_analyze(unknownMode, found) == ~unknownMode /\ ~found

\* d[k] = v
put(d, k, v) == [x \in DOMAIN d \cup {k} |-> IF x = k THEN v ELSE d[x]]

\* what _processLine did with a row
Done(row, unknownMode, seen, found, lookup, cached, used, result) ==
    [op |-> "_processLine", row |-> row, unknownMode |-> unknownMode, seen |-> seen,
     found |-> found, lookup |-> lookup, cached |-> cached, used |-> used,
     result |-> result]

\* _processLine once found, prefix, record and kind are determined: w is what
\* Whois(ip).analyze() answers, m what Whois(ip).resolveUnknownMail() answers
process_found(row, unknownMode, seen, found, prefix, pair, w, m) ==
    LET ip == row[ipColumn]
        fault(lookup) ==
            \* except Exception: "ROW fault"
            Effect(ranges, ipSeen, registries,
                   Done(row, unknownMode, seen, found, lookup, pair, << >>, "fault"))
        write(rngs, pfx, record, kind, lookup) ==
            \* self.ipSeen[ip] = prefix; self.reg[kind].count(record, ip, prefix, row)
            Effect(rngs, put(ipSeen, ip, pfx),
                   Registry_count(registries, kind, record, pfx, row),
                   Done(row, unknownMode, seen, found, lookup, pair,
                        <<record, kind>>, "counted"))
    IN  IF needs_analyze(unknownMode, found)
        THEN IF w.raised THEN fault("analyze")
             ELSE IF w.prefix = None
                  THEN write(ranges, None, w.record, w.kind, "analyze")
             ELSE IF w.prefix \notin DOMAIN ranges
                  THEN write(put(ranges, w.prefix, <<w.record, w.kind>>), w.prefix,
                             w.record, w.kind, "analyze")
             ELSE \* AssertionError: the prefix shouldnt be already present
                  fault("analyze")
        ELSE IF ~unknownMode
        THEN write(ranges, prefix, pair[1], pair[2], "none")
        ELSE IF ~found
        THEN \* AssertionError: the prefix should be already present
             fault("none")
        ELSE IF pair[1] = "unknown"
        THEN write(IF m # "unknown" THEN put(ranges, prefix, <<m, pair[2]>>) ELSE ranges,
                   prefix, m, pair[2], "resolveUnknownMail")
        ELSE write(ranges, prefix, pair[1], pair[2], "none")

\* SourceParser._processLine(row, unknownMode) past the header
_processLine(row, unknownMode, w, m) ==
    LET ip   == row[ipColumn]
        seen == ip \in DOMAIN ipSeen
        skip(found, cached, reg, result) ==
            Effect(ranges, ipSeen, reg,
                   Done(row, unknownMode, seen, found, "none", cached, << >>, result))
    IN  IF Len(row) < ipColumn
        THEN \* IndexError in records[self.ipColumn], caught by except Exception
             Effect(ranges, ipSeen, registries,
                    Done(row, unknownMode, FALSE, FALSE, "none", << >>, << >>, "fault"))
        ELSE IF seen
        THEN LET prefix == ipSeen[ip]
                 known  == prefix \in DOMAIN ranges
                 cached == IF known THEN ranges[prefix] ELSE << >>
             IN  IF method \in {"unique_file", "unique_ip"}
                 THEN skip(known, cached, registries, "skipped")
                 ELSE IF ~known
                 THEN \* KeyError in self.ranges[prefix]
                      skip(FALSE, cached, registries, "fault")
                 ELSE process_found(row, unknownMode, TRUE, TRUE, prefix, cached, w, m)
        ELSE IF DOMAIN ranges # {} /\ ~checkIp(ip)
        THEN skip(FALSE, << >>, InvalidRegistry_count(registries, row), "invalid")
        ELSE LET prefix == find_prefix(ip, ranges)
                 found  == prefix # None
                 cached == IF found THEN ranges[prefix] ELSE << >>
             IN  IF method = "unique_file" /\ found
                 THEN skip(TRUE, cached, registries, "skipped")
                 ELSE process_found(row, unknownMode, FALSE, found, prefix, cached, w, m)

\* the reset empties the caches whatever assure_init says
reset_whois_always(hard, assure_init, rngs, seen_map) ==
    [ranges |-> << >>, ipSeen |-> << >>]

\* SourceParser.reset_whois(hard, assure_init): if not assure_init: ... if hard:
\* self.ranges = {}; self.whoisip_seen = {}
reset_whois_caches(hard, assure_init, rngs, seen_map) ==
    IF ~assure_init /\ hard
    THEN [ranges |-> << >>, ipSeen |-> << >>]
    ELSE [ranges |-> rngs, ipSeen |-> seen_map]

\* the lines of a file: the header line first when the source has one (the registries
\* write Config.header into the files they open)
lines(file) == IF hasHeader THEN <<<<"id", "ip">>>> \o file ELSE file

NoReplay == [op |-> "none", N |-> 0, M |-> 0, processed |-> 0, done |-> FALSE]

RowInit ==
    /\ source \in SeqsUpTo(Rows, MaxRows)
    /\ hasHeader \in BOOLEAN
    /\ method \in Methods
    /\ ranges = << >>
    /\ ipSeen = << >>
    /\ lineCount = 0
    /\ invalid_file = << >>
    /\ unknown_file = << >>
    /\ invalid_count = 0
    /\ temp_file = << >>
    /\ file_pos = 0
    /\ counted = {}
    /\ pc = "idle"
    /\ last = NoCall
    /\ replay = NoReplay
    /\ PlanIdle /\ IdentIdle /\ DialIdle /\ WebIdle /\ CtlIdle /\ LaterIdle

\* what Whois may answer about the address of a row: to analyze() and to
\* resolveUnknownMail(); nothing is asked about a row without the IP column
WhoisAnswers(row) ==
    IF Len(row) < ipColumn
    THEN {<<[raised |-> TRUE, prefix |-> None, record |-> "", kind |-> ""], "unknown">>}
    ELSE analyze(row[ipColumn]) \X resolveUnknownMail(row[ipColumn])

\* for line in file: self._processLine(line, unknownMode)
stream_line(file, unknownMode) ==
    /\ file_pos < Len(lines(file))
    /\ file_pos' = file_pos + 1
    /\ lineCount' = lineCount + 1
    /\ LET row == lines(file)[file_pos + 1]
       IN  IF lineCount + 1 = 1 /\ hasHeader
           THEN \* skip header
                /\ last' = Done(row, unknownMode, FALSE, FALSE, "none", << >>, << >>,
                                "header")
                /\ UNCHANGED <<ranges, ipSeen, invalid_file, invalid_count,
                               unknown_file, counted, replay>>
           ELSE \E a \in WhoisAnswers(row) :
                    LET e == _processLine(row, unknownMode, a[1], a[2])
                    IN  /\ ranges' = e.ranges
                        /\ ipSeen' = e.ipSeen
                        /\ invalid_file' = e.reg.invalid_file
                        /\ invalid_count' = e.reg.invalid_count
                        /\ unknown_file' = e.reg.unknown_file
                        /\ counted' = e.reg.counted
                        /\ last' = e.last
                        /\ replay' = IF unknownMode /\ e.last.result = "counted"
                                     THEN [replay EXCEPT !.processed = @ + 1]
                                     ELSE replay
    /\ UNCHANGED <<hasHeader, method, source, temp_file, pc>>
    /\ UNCHANGED <<planVars, identVars, dialVars, webVars, ctlVars, laterVars>>

\* SourceParser.runAnalysis: self._reset()
runAnalysis_reset ==
    /\ pc \in {"idle", "analyzed"}
    /\ ranges' = << >>
    /\ ipSeen' = << >>
    /\ lineCount' = 0
    /\ invalid_file' = << >>
    /\ unknown_file' = << >>
    /\ invalid_count' = 0
    /\ counted' = {}
    /\ file_pos' = 0
    /\ last' = NoCall
    /\ replay' = NoReplay
    /\ pc' = "running"
    /\ UNCHANGED <<hasHeader, method, source, temp_file>>
    /\ UNCHANGED <<planVars, identVars, dialVars, webVars, ctlVars, laterVars>>

\* SourceParser.runAnalysis: for line in csvfile: self._processLine(line)
runAnalysis_line ==
    /\ pc = "running"
    /\ stream_line(source, FALSE)

\* SourceParser.runAnalysis: the file is read; if self.invalidReg.stat():
\* self.resolveInvalid()
runAnalysis_analyzed ==
    /\ pc = "running"
    /\ file_pos = Len(lines(source))
    /\ pc' = IF invalid_count >= 1 THEN "resolveInvalid" ELSE "resolveUnknown"
    /\ UNCHANGED <<ranges, ipSeen, lineCount, hasHeader, method, source, invalid_file,
                   unknown_file, invalid_count, temp_file, file_pos, counted, last,
                   replay>>
    /\ UNCHANGED <<planVars, identVars, dialVars, webVars, ctlVars, laterVars>>

\* SourceParser.resolveInvalid: the answer is n
resolveInvalid_ignore ==
    /\ pc = "resolveInvalid"
    /\ pc' = "resolveUnknown"
    /\ UNCHANGED <<ranges, ipSeen, lineCount, hasHeader, method, source, invalid_file,
                   unknown_file, invalid_count, temp_file, file_pos, counted, last,
                   replay>>
    /\ UNCHANGED <<planVars, identVars, dialVars, webVars, ctlVars, laterVars>>

\* SourceParser.resolveInvalid: the answer is o, the ledger is opened in the editor
\* and a row of it is made valid
resolveInvalid_edit ==
    \E i \in 1..Len(invalid_file), ip \in ValidIps :
        /\ pc = "resolveInvalid"
        /\ ~valid_row(invalid_file[i])
        /\ invalid_file' = [invalid_file EXCEPT ![i] = Row(ip)]
        /\ UNCHANGED <<ranges, ipSeen, lineCount, hasHeader, method, source,
                       unknown_file, invalid_count, temp_file, file_pos, counted, pc,
                       last, replay>>
        /\ UNCHANGED <<planVars, identVars, dialVars, webVars, ctlVars, laterVars>>

\* SourceParser.resolveInvalid: the answer is y; the ledger is moved to the temporary
\* file, self.lineCount = 0, self.invalidReg.reset()
resolveInvalid_move ==
    /\ pc = "resolveInvalid"
    /\ temp_file' = invalid_file
    /\ invalid_file' = << >>
    /\ invalid_count' = 0
    /\ lineCount' = 0
    /\ file_pos' = 0
    /\ replay' = [op |-> "resolveInvalid", N |-> Len(invalid_file),
                  M |-> Len(SelectSeq(invalid_file, valid_row)),
                  processed |-> 0, done |-> FALSE]
    /\ pc' = "replay_invalid"
    \* SourceParser._resolve_again: self.reset_whois(assure_init=True)
    /\ ranges' = reset_whois_caches(TRUE, TRUE, ranges, ipSeen).ranges
    /\ ipSeen' = reset_whois_caches(TRUE, TRUE, ranges, ipSeen).ipSeen
    /\ UNCHANGED <<hasHeader, method, source, unknown_file, counted, last>>
    /\ UNCHANGED <<planVars, identVars, dialVars, webVars, ctlVars, laterVars>>

\* SourceParser.resolveInvalid: for line in sourceF:
\* self._processLine(line, unknownMode=True)
resolveInvalid_line ==
    /\ pc = "replay_invalid"
    /\ stream_line(temp_file, TRUE)

\* SourceParser.resolveInvalid: the temporary file is read; self.lineCount = 0
resolveInvalid_done ==
    /\ pc = "replay_invalid"
    /\ file_pos = Len(lines(temp_file))
    /\ lineCount' = 0
    /\ replay' = [replay EXCEPT !.done = TRUE]
    /\ pc' = "resolveUnknown"
    /\ UNCHANGED <<ranges, ipSeen, hasHeader, method, source, invalid_file,
                   unknown_file, invalid_count, temp_file, file_pos, counted, last>>
    /\ UNCHANGED <<planVars, identVars, dialVars, webVars, ctlVars, laterVars>>

\* SourceParser.resolveUnknown is not called, or returns at once (no unknown
\* abusemail, or the answer is no); runAnalysis ends with self.lineCount = 0
resolveUnknown_return ==
    /\ pc = "resolveUnknown"
    /\ lineCount' = 0
    /\ pc' = "analyzed"
    /\ UNCHANGED <<ranges, ipSeen, hasHeader, method, source, invalid_file,
                   unknown_file, invalid_count, temp_file, file_pos, counted, last,
                   replay>>
    /\ UNCHANGED <<planVars, identVars, dialVars, webVars, ctlVars, laterVars>>

\* SourceParser.resolveUnknown: the answer is yes; the unknown file is moved to the
\* temporary file, self.lineCount = 0, self.abuseReg.resetUnknowns()
resolveUnknown_move ==
    /\ pc = "resolveUnknown"
    /\ unknown_file # << >>
    /\ temp_file' = unknown_file
    /\ unknown_file' = << >>
    /\ lineCount' = 0
    /\ file_pos' = 0
    /\ replay' = [op |-> "resolveUnknown", N |-> Len(unknown_file), M |-> 0,
                  processed |-> 0, done |-> FALSE]
    /\ pc' = "replay_unknown"
    \* SourceParser._resolve_again: self.reset_whois(assure_init=True)
    /\ ranges' = reset_whois_caches(TRUE, TRUE, ranges, ipSeen).ranges
    /\ ipSeen' = reset_whois_caches(TRUE, TRUE, ranges, ipSeen).ipSeen
    /\ UNCHANGED <<hasHeader, method, source, invalid_file, invalid_count, counted,
                   last>>
    /\ UNCHANGED <<planVars, identVars, dialVars, webVars, ctlVars, laterVars>>

\* SourceParser.resolveUnknown: for line in sourceF:
\* self._processLine(line, unknownMode=True)
resolveUnknown_line ==
    /\ pc = "replay_unknown"
    /\ stream_line(temp_file, TRUE)

\* SourceParser.resolveUnknown: the temporary file is read; self.lineCount = 0
resolveUnknown_done ==
    /\ pc = "replay_unknown"
    /\ file_pos = Len(lines(temp_file))
    /\ lineCount' = 0
    /\ replay' = [replay EXCEPT !.done = TRUE]
    /\ pc' = "analyzed"
    /\ UNCHANGED <<ranges, ipSeen, hasHeader, method, source, invalid_file,
                   unknown_file, invalid_count, temp_file, file_pos, counted, last>>
    /\ UNCHANGED <<planVars, identVars, dialVars, webVars, ctlVars, laterVars>>

\* SourceParser.reset_whois(hard, assure_init), between two analyses
reset_whois ==
    \E hard \in BOOLEAN, assure_init \in BOOLEAN :
        /\ pc \in {"idle", "analyzed"}
        /\ ranges' = reset_whois_caches(hard, assure_init, ranges, ipSeen).ranges
        /\ ipSeen' = reset_whois_caches(hard, assure_init, ranges, ipSeen).ipSeen
        /\ UNCHANGED <<lineCount, hasHeader, method, source, invalid_file,
                       unknown_file, invalid_count, temp_file, file_pos, counted, pc,
                       last, replay>>
        /\ UNCHANGED <<planVars, identVars, dialVars, webVars, ctlVars, laterVars>>

RowNext ==
    \/ runAnalysis_reset \/ runAnalysis_line \/ runAnalysis_analyzed
    \/ resolveInvalid_ignore \/ resolveInvalid_edit \/ resolveInvalid_move
    \/ resolveInvalid_line \/ resolveInvalid_done
    \/ resolveUnknown_return \/ resolveUnknown_move \/ resolveUnknown_line
    \/ resolveUnknown_done
    \/ reset_whois

SpecRows == RowInit /\ [][RowNext]_vars

\* C9 as stated: a row whose address was seen or lies in a known block makes no Whois
\* lookup and is counted with the block's cached (record, kind); a lookup is made
\* only for an address in no known block
C9_NoLookupForKnownAddress ==
    (last.op = "_processLine" /\ last.result # "header") =>
        /\ (last.seen \/ last.found) =>
              /\ last.lookup = "none"
              /\ last.result = "counted" => last.used = last.cached
        /\ last.lookup # "none" => (~last.seen /\ ~last.found)

\* C9 amended: outside the unknown mode a row whose address was seen or lies in a
\* known block makes no Whois lookup and, when counted, is counted with the block's
\* cached (record, kind); Whois.analyze is called only outside the unknown mode for
\* an address not seen and in no known block; in the unknown mode the only lookup is
\* resolveUnknownMail, made only for a known block whose cached record is "unknown"
C9_NoLookupOutsideUnknownMode ==
    (last.op = "_processLine" /\ last.result # "header") =>
        /\ (~last.unknownMode /\ (last.seen \/ last.found)) =>
              /\ last.lookup = "none"
              /\ last.result = "counted" => last.used = last.cached
        /\ last.lookup = "analyze" =>
              (~last.unknownMode /\ ~last.seen /\ ~last.found)
        /\ last.lookup = "resolveUnknownMail" =>
              (last.unknownMode /\ last.found /\ last.cached[1] = "unknown")

\* a row of the normal mode with an address not seen before, inside a known block:
\* counted with the cached pair, no lookup made
C9_Witness ==
    /\ last.op = "_processLine"
    /\ ~last.unknownMode
    /\ ~last.seen
    /\ last.found
    /\ last.lookup = "none"
    /\ last.result = "counted"
    /\ last.used = last.cached

\* C10: after a replay of a ledger of N rows of which M were made valid, the invalid
\* count is N - M, the new ledger holds N - M rows and the M rows were processed
C10_ReplayLeavesStillInvalid ==
    (replay.op = "resolveInvalid" /\ replay.done) =>
        /\ invalid_count = replay.N - replay.M
        /\ Len(invalid_file) = replay.N - replay.M
        /\ replay.processed = replay.M

\* C11: a row with fewer fields than the header, so that the IP column is missing, is
\* counted into the invalid ledger and into no other registry
C11_ShortRowIsInvalid ==
    (last.op = "_processLine" /\ last.result # "header" /\ Len(last.row) < ipColumn)
        => last.result = "invalid"

\* C12: a row with the IP column whose value is no address is counted into the
\* invalid ledger and no Whois lookup is made for it, whatever the caches hold
C12_BadAddressIsInvalid ==
    (/\ last.op = "_processLine"
     /\ last.result # "header"
     /\ Len(last.row) >= ipColumn
     /\ ~checkIp(last.row[ipColumn]))
        => (last.result = "invalid" /\ last.lookup = "none")

\* the positions of a replay pass: from the question of resolveInvalid or
\* resolveUnknown to the last row of the temporary file
ReplayPositions == {"resolveInvalid", "replay_invalid", "resolveUnknown", "replay_unknown"}

----------------------------------------------------------------------------
(* The replay dialogues of src/convey: resolve_invalid and resolve_unknown *)

\* the rows a ledger of invalid rows may hold after an analysis
InvalidRows == {Row("bad"), ShortRow}

\* the rows the ledger of unknown abusemails may hold
UnknownRows == {Row(ip) : ip \in ValidIps}

\* the rows of seq at the positions keep, in order
sub_seq(seq, keep) ==
    LET F[i \in 0..Len(seq)] ==
            IF i = 0 THEN << >>
            ELSE IF i \in keep THEN Append(F[i - 1], seq[i]) ELSE F[i - 1]
    IN  F[Len(seq)]

\* Processor.process_file(temp) on a ledger of invalid rows: a row that is valid now
\* is processed, a row still invalid is written to the ledger again and counted
process_file_invalid(file) == SelectSeq(file, LAMBDA row : ~valid_row(row))

\* the pass is the last one whatever is left
resolve_invalid_once(left) == "resolve_unknown"

\* if self.invalid_lines_count: ... self.resolve_invalid()
resolve_invalid_again(left) == IF left > 0 THEN "resolve_invalid" ELSE "resolve_unknown"

\* what a call did: the answer given, the failures before and after, and whether
\* and what number of rows resolved was printed
Asked(op, answer, before, left, reported, solved) ==
    [op |-> op, answer |-> answer, before |-> before, left |-> left,
     reported |-> reported, solved |-> solved]

ResolveInit ==
    /\ invalid_file \in SeqsUpTo(InvalidRows, MaxRows)
    /\ invalid_count = Len(invalid_file)
    /\ unknown_file \in SeqsUpTo(UnknownRows, MaxRows)
    /\ temp_file = << >>
    /\ pc = "resolve_invalid"
    /\ last = NoCall
    /\ ranges = << >> /\ ipSeen = << >> /\ lineCount = 0 /\ hasHeader = FALSE
    /\ method = "default" /\ source = << >> /\ file_pos = 0 /\ counted = {}
    /\ replay = NoCall
    /\ PlanIdle /\ IdentIdle /\ DialIdle /\ WebIdle /\ CtlIdle /\ LaterIdle

\* what resolve_invalid and resolve_unknown leave alone
resolve_frame ==
    /\ UNCHANGED <<ranges, ipSeen, lineCount, hasHeader, method, source, file_pos,
                   counted, replay>>
    /\ UNCHANGED <<planVars, identVars, dialVars, webVars, ctlVars, laterVars>>

\* SourceParser.resolve_invalid: "No invalid rows."
resolve_invalid_none ==
    /\ pc = "resolve_invalid"
    /\ invalid_count = 0
    /\ pc' = "resolve_unknown"
    /\ last' = Asked("resolve_invalid", "none", 0, 0, FALSE, 0)
    /\ UNCHANGED <<invalid_file, invalid_count, unknown_file, temp_file>>
    /\ resolve_frame

\* SourceParser.resolve_invalid: the answer is n
resolve_invalid_n ==
    /\ pc = "resolve_invalid"
    /\ invalid_count > 0
    /\ pc' = "resolve_unknown"
    /\ last' = Asked("resolve_invalid", "n", invalid_count, invalid_count, FALSE, 0)
    /\ UNCHANGED <<invalid_file, invalid_count, unknown_file, temp_file>>
    /\ resolve_frame

\* SourceParser.resolve_invalid: the answer is o; a row is made valid in the editor
\* and the question is asked again
resolve_invalid_o ==
    \E i \in 1..Len(invalid_file), ip \in ValidIps :
        /\ pc = "resolve_invalid"
        /\ invalid_count > 0
        /\ ~valid_row(invalid_file[i])
        /\ invalid_file' = [invalid_file EXCEPT ![i] = Row(ip)]
        /\ last' = Asked("resolve_invalid", "o", invalid_count, invalid_count, FALSE, 0)
        /\ UNCHANGED <<invalid_count, unknown_file, temp_file, pc>>
        /\ resolve_frame

\* SourceParser.resolve_invalid: the answer is y; self.invalid_lines_count = 0,
\* _resolve_again moves the ledger to the temporary file, streams it and unlinks it;
\* if rows are left, the number resolved is printed and resolve_invalid runs again
resolve_invalid_y ==
    LET invalids == invalid_count
        ledger   == process_file_invalid(invalid_file)
        left     == Len(ledger)
    IN  /\ pc = "resolve_invalid"
        /\ invalid_count > 0
        /\ invalid_file' = ledger
        /\ invalid_count' = left
        /\ temp_file' = << >>
        /\ last' = Asked("resolve_invalid", "y", invalids, left, left > 0,
                         IF left > 0 THEN invalids - left ELSE 0)
        /\ pc' = resolve_invalid_again(left)
        /\ UNCHANGED unknown_file
        /\ resolve_frame

\* SourceParser.resolve_unknown: "No unknown abusemails.", or the answer is no
resolve_unknown_no ==
    /\ pc = "resolve_unknown"
    /\ pc' = "done"
    /\ last' = Asked("resolve_unknown", IF unknown_file = << >> THEN "none" ELSE "n",
                     Len(unknown_file), Len(unknown_file), FALSE, 0)
    /\ UNCHANGED <<invalid_file, invalid_count, unknown_file, temp_file>>
    /\ resolve_frame

\* SourceParser.resolve_unknown: the answer is yes; the statistics are emptied,
\* _resolve_again streams the ledger in the unknown mode (the rows whose abusemail
\* is still unknown are written to the ledger again), and the method returns
resolve_unknown_yes ==
    \E keep \in SUBSET (1..Len(unknown_file)) :
        /\ pc = "resolve_unknown"
        /\ unknown_file # << >>
        /\ unknown_file' = sub_seq(unknown_file, keep)
        /\ temp_file' = << >>
        /\ last' = Asked("resolve_unknown", "y", Len(unknown_file), Cardinality(keep),
                         FALSE, 0)
        /\ pc' = "done"
        /\ UNCHANGED <<invalid_file, invalid_count>>
        /\ resolve_frame

\* the menu of Controller.refresh_menu: "Resolve invalid lines", "Resolve unknown
\* abuse-mails"
refresh_menu ==
    \E choice \in {"resolve_invalid", "resolve_unknown"} :
        /\ pc = "done"
        /\ pc' = choice
        /\ last' = NoCall
        /\ UNCHANGED <<invalid_file, invalid_count, unknown_file, temp_file>>
        /\ resolve_frame

ResolveNext ==
    \/ resolve_invalid_none \/ resolve_invalid_n \/ resolve_invalid_o
    \/ resolve_invalid_y \/ resolve_unknown_no \/ resolve_unknown_yes
    \/ refresh_menu

SpecResolve == ResolveInit /\ [][ResolveNext]_vars

\* C14 as stated, for both ledgers: after a pass that leaves failures the number
\* resolved in the pass is printed and another pass is offered; after a pass that
\* leaves none, and after the answer no, the replay is over
C14_AnotherPassOffered ==
    /\ (last.op \in {"resolve_invalid", "resolve_unknown"} /\ last.answer = "y") =>
          IF last.left > 0
          THEN /\ last.reported
               /\ last.solved = last.before - last.left
               /\ pc = last.op
          ELSE pc # last.op
    /\ (last.op \in {"resolve_invalid", "resolve_unknown"} /\ last.answer = "n") =>
          pc # last.op

\* C14 amended: resolve_invalid prints the number resolved and asks again after a
\* pass that leaves invalid rows, and is over after a pass that leaves none and
\* after the answer no; resolve_unknown makes one pass, prints no number and is
\* over after it, whatever is left
C14_AnotherPassForInvalidOnly ==
    /\ (last.op = "resolve_invalid" /\ last.answer = "y") =>
          IF last.left > 0
          THEN /\ last.reported
               /\ last.solved = last.before - last.left
               /\ pc = "resolve_invalid"
          ELSE pc # "resolve_invalid"
    /\ (last.op = "resolve_invalid" /\ last.answer = "n") => pc # "resolve_invalid"
    /\ (last.op = "resolve_unknown" /\ last.answer \in {"y", "n"}) =>
          (~last.reported /\ pc = "done")

\* a pass over the invalid ledger resolved a row and left another: the number is
\* printed and the question is asked again
C14_Witness ==
    /\ last.op = "resolve_invalid"
    /\ last.answer = "y"
    /\ last.left > 0
    /\ last.solved > 0
    /\ pc = "resolve_invalid"

----------------------------------------------------------------------------
(* The Controller's ways to add a field, and TypeGroup.disable *)

MaxFields == 1       \* --field flags given, and fields added from the menu
MaxDisabled == 1     \* TypeGroups disabled

Groups == {TypeGroup.general, TypeGroup.custom, TypeGroup.whois, TypeGroup.dns,
           TypeGroup.nmap, TypeGroup.web}

\* the names a --field flag may give
CliNames == {"whois", "web", "netname", "hostname", "nonsense"}

\* Types.get_guessable_types() with the is_disabled flags dis
guessable_now(dis) ==
    sorted({t \in TypeSet \ dis : has_identify_method(t) \/ usual_names(t) # << >>})

\* Types.get_computable_types() with the dict keys now and the is_disabled flags dis
get_computable_types(now, dis) ==
    sorted({e[2] : e \in {x \in now : ~(is_private(x[2]) \/ x[2] \in dis)}})

\* TypeGroup.disable: del methods[start, target] for every key with an end in g
disable_methods(g, now) == {e \in now : group(e[1]) # g /\ group(e[2]) # g}

\* TypeGroup.disable: f.is_disabled = True for f in Types.get_guessable_types() of g
disable_types(g, dis) ==
    dis \cup {t \in Range(guessable_now(dis)) : group(t) = g}

ctl_frame ==
    UNCHANGED <<planVars, identVars, dialVars, webVars, rowVars, laterVars>>

CtlInit ==
    /\ CtlIdle /\ LaterIdle
    /\ PlanIdle /\ IdentIdle /\ DialIdle /\ WebIdle /\ RowIdle

\* g.disable()
TypeGroup_disable ==
    \E g \in Groups :
        /\ ctl # "quit"
        /\ g \notin disabled_groups
        /\ Cardinality(disabled_groups) < MaxDisabled
        /\ disabled_groups' = disabled_groups \cup {g}
        /\ methods_now' = disable_methods(g, methods_now)
        /\ is_disabled' = disable_types(g, is_disabled)
        /\ UNCHANGED <<new_fields, settings_add, ctl>>
        /\ ctl_frame

\* Controller.__init__, for task in args.field: new_field = types[types.index(task[0])]
\* (ValueError for a name of no Type); new_fields.append(...)
Controller_field ==
    \E name \in CliNames :
        /\ ctl = "args"
        /\ Len(new_fields) < MaxFields
        /\ IF name \in TypeSet
           THEN new_fields' = Append(new_fields, name) /\ ctl' = ctl
           ELSE new_fields' = new_fields /\ ctl' = "quit"
        /\ UNCHANGED <<disabled_groups, methods_now, is_disabled, settings_add>>
        /\ ctl_frame

\* Controller.__init__, for el in new_fields: the three values get_fitting_source
\* returns (when it does not quit) are unpacked into two names, ValueError; with no
\* --field the main menu is reached
Controller_menu ==
    /\ ctl = "args"
    /\ ctl' = IF new_fields = << >> THEN "menu" ELSE "quit"
    /\ UNCHANGED <<disabled_groups, methods_now, is_disabled, new_fields, settings_add>>
    /\ ctl_frame

\* Controller.add_column: select_col lists the computable types, source_new_column
\* appends the Field of the one picked to settings["add"]
add_column ==
    \E i \in 1..Len(get_computable_types(methods_now, is_disabled)) :
        /\ ctl = "menu"
        /\ Len(settings_add) < MaxFields
        /\ settings_add' =
              Append(settings_add, get_computable_types(methods_now, is_disabled)[i])
        /\ UNCHANGED <<disabled_groups, methods_now, is_disabled, new_fields, ctl>>
        /\ ctl_frame

\* the main menu: "Rework whole file again" (the settings are dropped), or exit
Controller_leave ==
    \E again \in BOOLEAN :
        /\ ctl = "menu"
        /\ settings_add' = IF again THEN << >> ELSE settings_add
        /\ ctl' = IF again THEN "menu" ELSE "quit"
        /\ UNCHANGED <<disabled_groups, methods_now, is_disabled, new_fields>>
        /\ ctl_frame

CtlNext ==
    \/ TypeGroup_disable \/ Controller_field \/ Controller_menu \/ add_column
    \/ Controller_leave

SpecControl == CtlInit /\ [][CtlNext]_vars

\* C15: no target taken from a --field flag and no target of a field added from the
\* menu is a private Type
C15_NoPrivateTarget ==
    /\ \A i \in 1..Len(new_fields) : ~is_private(new_fields[i])
    /\ \A i \in 1..Len(settings_add) : ~is_private(settings_add[i])

\* C16: after g.disable() every Type of g has is_disabled set, no key of `methods`
\* has an end in g, and no guessable and no computable Type is of g
C16_DisabledGroupIsGone ==
    \A g \in disabled_groups :
        /\ \A t \in TypeSet : group(t) = g => t \in is_disabled
        /\ \A e \in methods_now : group(e[1]) # g /\ group(e[2]) # g
        /\ \A t \in Range(guessable_now(is_disabled)) : group(t) # g
        /\ \A t \in Range(get_computable_types(methods_now, is_disabled)) : group(t) # g

----------------------------------------------------------------------------
(* The single step of a custom target: Identifier.get_methods_from(target, start, custom) *)

MaxGroups == 2       \* capturing groups of the user's regular expression

CustomTargets == {"custom", "code", "reg"}

\* what the user's payload does on a value: the method of the user's module and the
\* user's statement return a value or raise; the user's expression does not match,
\* or matches with so many groups, and the template (if one is given) refers to the
\* positional argument ref
Payloads(target) ==
    IF target = "reg"
    THEN {[match |-> FALSE, groups |-> 0, replace |-> FALSE, ref |-> 0]}
           \cup {[match |-> TRUE, groups |-> g, replace |-> FALSE, ref |-> 0] :
                    g \in 0..MaxGroups}
           \cup {[match |-> TRUE, groups |-> g, replace |-> TRUE, ref |-> k] :
                    g \in 0..MaxGroups, k \in 0..(MaxGroups + 1)}
    ELSE {[raises |-> r] : r \in BOOLEAN}

\* the payload fails on the value: it raises, or the template cannot be applied
\* (replace.format(match.group(0), *groups) takes the arguments 0..groups)
payload_fails(target, pl) ==
    IF target = "reg" THEN pl.match /\ pl.replace /\ pl.ref > pl.groups
    ELSE pl.raises

\* Config.error_caught(), called by the except blocks of custom_code and regex:
\* src/convey/config.py defines error_catched only
ErrorCaught == {"returns", "AttributeError"}

Raised == [raised |-> TRUE, value |-> ""]

Returned(v) == [raised |-> FALSE, value |-> v]

\* getattr(module, name)(x): the user's method itself is the step
custom_method(x, pl) == IF pl.raises THEN Raised ELSE Returned("f(" \o x \o ")")

\* custom_code(e)(x): a failing statement is logged and x is returned
custom_code(x, pl, ec) ==
    IF pl.raises
    THEN IF ec = "AttributeError" THEN Raised ELSE Returned(x)
    ELSE Returned("f(" \o x \o ")")

\* regex(search, replace)(s)
regex(x, pl, ec) ==
    IF ~pl.match THEN Returned("")
    ELSE IF ~pl.replace
    THEN Returned(IF pl.groups = 0 THEN "group0(" \o x \o ")" ELSE "group1(" \o x \o ")")
    ELSE IF pl.ref <= pl.groups THEN Returned("format(" \o x \o ")")
    ELSE \* IndexError: "We consider string unmatched..."
         IF ec = "AttributeError" THEN Raised ELSE Returned("")

\* the step of the chain applied to x
custom_step(target, x, pl, ec) ==
    CASE target = "custom" -> custom_method(x, pl)
      [] target = "code" -> custom_code(x, pl, ec)
      [] target = "reg" -> regex(x, pl, ec)

CustomInit ==
    /\ plan = NoCall
    /\ IdentIdle /\ DialIdle /\ WebIdle /\ RowIdle /\ CtlIdle /\ LaterIdle

\* Identifier.get_methods_from(target, start, custom) for a target of TypeGroup.custom
get_methods_from_custom ==
    \E target \in CustomTargets :
        /\ plan' = [op |-> "get_methods_from", target |-> target, start |-> "plaintext",
                    lambdas |-> get_methods_from(target, "plaintext")]
        /\ UNCHANGED <<identVars, dialVars, webVars, rowVars, ctlVars, laterVars>>

\* a row's value is handed to the chain: for l in methods: val = l(val)
apply_custom ==
    /\ plan.op \in {"get_methods_from", "applied"}
    /\ Len(plan.lambdas) >= 1
    /\ \E x \in Values, pl \in Payloads(plan.target), ec \in ErrorCaught :
        /\ LET r == custom_step(plan.target, x, pl, ec)
           IN  plan' = [op |-> "applied", target |-> plan.target, start |-> plan.start,
                        lambdas |-> plan.lambdas, x |-> x, payload |-> pl,
                        failed |-> payload_fails(plan.target, pl),
                        raised |-> r.raised, value |-> r.value]
        /\ UNCHANGED <<identVars, dialVars, webVars, rowVars, ctlVars, laterVars>>

CustomNext == get_methods_from_custom \/ apply_custom

SpecCustom == CustomInit /\ [][CustomNext]_vars

\* C17: the chain of a custom target has one step, and when the user's payload
\* fails on x the step raises nothing and returns x
C17_FailingPayloadPassesValue ==
    /\ (plan.op \in {"get_methods_from", "applied"}) => Len(plan.lambdas) = 1
    /\ (plan.op = "applied" /\ plan.failed) => (~plan.raised /\ plan.value = plan.x)

----------------------------------------------------------------------------
(* The output file: SourceParser.prepare_target_file *)

MaxCols == 2         \* columns of the file a split may be set on: 0..MaxCols-1

\* a value of settings["split"]: the empty list a defaultdict(list) answers for a key
\* never written, or the column index select_col returned
EmptyList == [list |-> TRUE, int |-> 0]

Column(i) == [list |-> FALSE, int |-> i]

\* bool(v): an empty list and 0 are false
truthy(v) == ~v.list /\ v.int # 0

\* v is 0
is_0(v) == ~v.list /\ v.int = 0

\* defaultdict(list): every key answers an empty list (filter, unique: the list is
\* not empty; dialect: one is set)
NoSettings == [split |-> EmptyList, filter |-> FALSE, unique |-> FALSE, dialect |-> FALSE]

\* "_".join(l) + ".csv" for l = [Path(source_file).name, "filter", "uniqued", "dialect"]
\* (no field is unchosen or added here), or output_<time>.csv without a source file
target_name(st, src) ==
    IF src # None
    THEN src \o (IF st.filter THEN "_filter" ELSE "")
             \o (IF st.unique THEN "_uniqued" ELSE "")
             \o (IF st.dialect THEN "_dialect" ELSE "")
             \o ".csv"
    ELSE "output_time.csv"

\* Path(str(output)) if output else Path(Config.get_cache_dir(), target_file)
target_path(st, src, outp) ==
    IF outp # None THEN outp ELSE "cache/" \o target_name(st, src)

\* the test without its second half: if not self.settings["split"]
prepare_target_file_truthy(st, src, outp) ==
    IF ~truthy(st.split)
    THEN [target_file |-> target_path(st, src, outp), is_split |-> FALSE]
    ELSE [target_file |-> None, is_split |-> TRUE]

\* if not self.settings["split"] and self.settings["split"] is not 0
prepare_target_file(st, src, outp) ==
    IF ~truthy(st.split) /\ ~is_0(st.split)
    THEN [target_file |-> target_path(st, src, outp), is_split |-> FALSE]
    ELSE [target_file |-> None, is_split |-> TRUE]

\* SourceParser.__init__ with prepare: _reset, then prepare() calls prepare_target_file
OutInit ==
    /\ settings = NoSettings
    /\ source_file \in {None, "file.csv"}
    /\ output \in {None, "out.csv"}
    /\ is_split = prepare_target_file(settings, source_file, output).is_split
    /\ target_file = prepare_target_file(settings, source_file, output).target_file
    /\ out = "prepared"
    /\ PlanIdle /\ IdentIdle /\ DialIdle /\ WebIdle /\ RowIdle /\ CtlIdle /\ CodecIdle /\ SrcIdle
    /\ LifeIdle
    /\ ChainIdle
    /\ SmpIdle
    /\ AgainIdle

out_frame ==
    UNCHANGED <<planVars, identVars, dialVars, webVars, rowVars, ctlVars, codecVars, srcVars,
                lifeVars,
                chainVars,
                smpVars,
                againVars>>

\* Controller.add_splitting: settings["split"] = select_col("splitting")
add_splitting ==
    \E col_i \in 0..(MaxCols - 1) :
        /\ settings' = [settings EXCEPT !.split = Column(col_i)]
        /\ out' = "processable"
        /\ UNCHANGED <<source_file, output, is_split, target_file>>
        /\ out_frame

\* Controller.add_filtering: settings["filter"].append((col_i, val))
add_filtering ==
    /\ settings' = [settings EXCEPT !.filter = TRUE]
    /\ out' = "processable"
    /\ UNCHANGED <<source_file, output, is_split, target_file>>
    /\ out_frame

\* Controller.add_uniquing: settings["unique"].append(col_i)
add_uniquing ==
    /\ settings' = [settings EXCEPT !.unique = TRUE]
    /\ out' = "processable"
    /\ UNCHANGED <<source_file, output, is_split, target_file>>
    /\ out_frame

\* Controller.add_dialect: settings["dialect"] = dialect
add_dialect ==
    /\ settings' = [settings EXCEPT !.dialect = TRUE]
    /\ out' = "processable"
    /\ UNCHANGED <<source_file, output, is_split, target_file>>
    /\ out_frame

\* SourceParser.reset_settings: self.settings = defaultdict(list)
reset_settings ==
    /\ settings # NoSettings
    /\ settings' = NoSettings
    /\ out' = "processable"
    /\ UNCHANGED <<source_file, output, is_split, target_file>>
    /\ out_frame

\* SourceParser.run_analysis: _reset(hard=False) sets is_split False, then
\* prepare_target_file sets target_file and is_split
run_analysis ==
    /\ out = "processable"
    /\ is_split' = prepare_target_file(settings, source_file, output).is_split
    /\ target_file' = prepare_target_file(settings, source_file, output).target_file
    /\ out' = "prepared"
    /\ UNCHANGED <<settings, source_file, output>>
    /\ out_frame

OutNext ==
    \/ add_splitting
    \/ add_filtering
    \/ add_uniquing
    \/ add_dialect
    \/ reset_settings
    \/ run_analysis

SpecOutput == OutInit /\ [][OutNext]_vars

\* C18: after prepare_target_file, is_split is true exactly when a split column is
\* set, column 0 included, and then target_file is None; otherwise is_split is false
\* and target_file is an output path
C18_SplitHasNoTargetFile ==
    out = "prepared" =>
        /\ is_split <=> settings.split # EmptyList
        /\ is_split => target_file = None
        /\ ~is_split => target_file # None

\* the split is set on column 0 and the file was prepared
C18_Witness ==
    /\ out = "prepared"
    /\ settings.split = Column(0)
    /\ is_split
    /\ target_file = None

----------------------------------------------------------------------------
(* Base64: the edges (plaintext, base64) and (base64, plaintext) of methods *)

MaxText == 3         \* characters of the text encoded

\* a text is a sequence of code points: line feed, backslash, "n", "A"
TextChars == {10, 92, 110, 65}

\* the Base64 alphabet: the code point of the character for a 6-bit value
b64char(i) ==
    IF i < 26 THEN 65 + i
    ELSE IF i < 52 THEN 97 + (i - 26)
    ELSE IF i < 62 THEN 48 + (i - 52)
    ELSE IF i = 62 THEN 43 ELSE 47

\* the 6-bit value of a character of the alphabet
b64index(c) == CHOOSE i \in 0..63 : b64char(i) = c

Pad == 61            \* "="

\* base64.b64encode(bytes): three bytes make four characters, the last group is padded
RECURSIVE b64encode(_)
b64encode(bytes) ==
    IF Len(bytes) = 0 THEN << >>
    ELSE IF Len(bytes) = 1
    THEN LET n == bytes[1] * 65536
         IN  <<b64char(n \div 262144), b64char((n \div 4096) % 64), Pad, Pad>>
    ELSE IF Len(bytes) = 2
    THEN LET n == bytes[1] * 65536 + bytes[2] * 256
         IN  <<b64char(n \div 262144), b64char((n \div 4096) % 64),
               b64char((n \div 64) % 64), Pad>>
    ELSE LET n == bytes[1] * 65536 + bytes[2] * 256 + bytes[3]
         IN  <<b64char(n \div 262144), b64char((n \div 4096) % 64),
               b64char((n \div 64) % 64), b64char(n % 64)>>
               \o b64encode(SubSeq(bytes, 4, Len(bytes)))

\* base64.b64decode(s) for a padded text of the alphabet: four characters make three
\* bytes, fewer where the group is padded
RECURSIVE b64decode(_)
b64decode(s) ==
    IF Len(s) = 0 THEN << >>
    ELSE LET v(k) == IF s[k] = Pad THEN 0 ELSE b64index(s[k])
             n == v(1) * 262144 + v(2) * 4096 + v(3) * 64 + v(4)
             three == <<n \div 65536, (n \div 256) % 256, n % 256>>
             part == IF s[3] = Pad THEN SubSeq(three, 1, 1)
                      ELSE IF s[4] = Pad THEN SubSeq(three, 1, 2)
                      ELSE three
         IN  part \o b64decode(SubSeq(s, 5, Len(s)))

\* str.replace(old, new) for a single character old
RECURSIVE str_replace(_, _, _)
str_replace(s, old, new) ==
    IF s = << >> THEN << >>
    ELSE (IF Head(s) = old THEN new ELSE <<Head(s)>>) \o str_replace(Tail(s), old, new)

\* the decoding without the replacement: b64decode(x).decode("UTF-8")
base64decode_raw(x) ==
    IF Len(x) % 4 # 0 \/ \E k \in 1..Len(b64decode(x)) : b64decode(x)[k] >= 128
    THEN [none |-> TRUE, text |-> << >>]
    ELSE [none |-> FALSE, text |-> b64decode(x)]

\* base64decode(x): b64decode(x).decode("UTF-8").replace("\n", "\\n"), None on a
\* ValueError (the padding is incorrect) or a UnicodeDecodeError
base64decode(x) ==
    IF Len(x) % 4 # 0 \/ \E k \in 1..Len(b64decode(x)) : b64decode(x)[k] >= 128
    THEN [none |-> TRUE, text |-> << >>]
    ELSE [none |-> FALSE, text |-> str_replace(b64decode(x), 10, <<92, 110>>)]

\* methods[plaintext, base64]: b64encode(x.encode("UTF-8")).decode("UTF-8")
plaintext_to_base64(x) == b64encode(x)

CodecInit ==
    /\ codec \in {[op |-> "plaintext", x |-> x] : x \in SeqsUpTo(TextChars, MaxText)}
    /\ PlanIdle /\ IdentIdle /\ DialIdle /\ WebIdle /\ RowIdle /\ CtlIdle /\ OutIdle
    /\ SrcIdle
    /\ LifeIdle
    /\ ChainIdle
    /\ SmpIdle
    /\ AgainIdle

codec_frame ==
    UNCHANGED <<planVars, identVars, dialVars, webVars, rowVars, ctlVars, outVars, srcVars,
                lifeVars,
                chainVars,
                smpVars,
                againVars>>

\* the step plaintext -> base64 applied to the text
encode ==
    /\ codec.op = "plaintext"
    /\ codec' = [op |-> "base64", x |-> codec.x, encoded |-> plaintext_to_base64(codec.x)]
    /\ codec_frame

\* the step base64 -> plaintext applied to what the first step returned
decode ==
    /\ codec.op = "base64"
    /\ codec' = [op |-> "decoded", x |-> codec.x, encoded |-> codec.encoded,
                 none |-> base64decode(codec.encoded).none,
                 decoded |-> base64decode(codec.encoded).text]
    /\ codec_frame

CodecNext == encode \/ decode

SpecCodec == CodecInit /\ [][CodecNext]_vars

\* the text with every line feed written as backslash, "n"
RECURSIVE escaped(_)
escaped(s) ==
    IF s = << >> THEN << >>
    ELSE IF s[1] = 10 THEN <<92, 110>> \o escaped(Tail(s))
    ELSE <<s[1]>> \o escaped(Tail(s))

\* C20: encoding a text and decoding the result returns the text when it holds no
\* line feed, and the text with every line feed written as backslash, "n" otherwise
C20_RoundTrip ==
    codec.op = "decoded" =>
        /\ ~codec.none
        /\ (\A k \in 1..Len(codec.x) : codec.x[k] # 10) => codec.decoded = codec.x
        /\ codec.decoded = escaped(codec.x)

\* a text with a line feed inside went through both steps
C20_Witness ==
    /\ codec.op = "decoded"
    /\ Len(codec.x) = 3
    /\ codec.x[2] = 10
    /\ codec.encoded = <<81, 81, 112, 66>>
    /\ codec.decoded = <<65, 92, 110, 65>>

----------------------------------------------------------------------------
(* The columns of a file: get_fitting_source_i, get_fields_autodetection, get_column_i *)

MaxColumns == 2      \* columns of the file

\* what the sample holds of a column
ColumnSamples ==
    { <<"1.2.3.4.80", "1.2.3.4.80", "hello">>,
      <<"http://1.2.3.4/">>,
      <<"1.2.3.4">>,
      <<"aGVsbG8=">>,
      <<"hello">> }

\* the names on the first line
ColumnNames == <<"a", "b", "c", "d">>

\* the Types of a column's possible_types
keys(pt) == {pt[i].type : i \in 1..Len(pt)}

\* possible_types[val]
score_in(pt, val) == pt[CHOOSE i \in 1..Len(pt) : pt[i].type = val].score

\* the order a loop over graph.dijkstra(target) visits the Types in: by distance,
\* Types of one distance as they were registered
RECURSIVE dijkstra_order(_, _)
dijkstra_order(dist, d) ==
    IF \A t \in DOMAIN dist : dist[t] < d THEN << >>
    ELSE SelectSeq(types, LAMBDA t : t \in DOMAIN dist /\ dist[t] = d)
            \o dijkstra_order(dist, d + 1)

\* possible_cols[i] = score: a key the dict holds keeps its place
set_item(possible_cols, i, score) ==
    IF \E k \in 1..Len(possible_cols) : possible_cols[k].col = i
    THEN [k \in 1..Len(possible_cols) |->
             IF possible_cols[k].col = i THEN [col |-> i, score |-> score]
             ELSE possible_cols[k]]
    ELSE Append(possible_cols, [col |-> i, score |-> score])

\* for val in valid_types: for i, f in enumerate(fields): if val in f.possible_types:
\* possible_cols[i] = f.possible_types[val]; break
RECURSIVE source_loop(_, _, _)
source_loop(valid_types, flds, possible_cols) ==
    IF valid_types = << >> THEN possible_cols
    ELSE LET val == Head(valid_types)
             having == {i \in 1..Len(flds) : val \in keys(flds[i])}
         IN  IF having = {}
             THEN source_loop(Tail(valid_types), flds, possible_cols)
             ELSE LET i == CHOOSE j \in having : \A k \in having : j <= k
                  IN  source_loop(Tail(valid_types), flds,
                                  set_item(possible_cols, i - 1, score_in(flds[i], val)))

\* the flag without the test `if self != Types.plaintext`
is_plaintext_derivable_any(t) == dijkstra_path(t, "plaintext") # << >>

\* Type.is_plaintext_derivable as Type._init sets it: False from __init__, and
\* if self != Types.plaintext: bool(graph.dijkstra(self, start=Types.plaintext))
is_plaintext_derivable(t) ==
    IF t # "plaintext" THEN dijkstra_path(t, "plaintext") # << >> ELSE FALSE

\* Identifier.get_fitting_source_i(new_field, try_hard): the column indices, from 0
get_fitting_source_i(flds, new_field, try_hard) ==
    LET possible_cols ==
            IF group(new_field) # TypeGroup.custom
            THEN source_loop(dijkstra_order(dijkstra(new_field), 0), flds, << >>)
            ELSE << >>
    IN  IF possible_cols = << >> /\ try_hard /\ is_plaintext_derivable(new_field)
        THEN <<0>>
        ELSE [k \in 1..Len(possible_cols) |-> possible_cols[k].col]

\* SourceParser.prepare: the fields of the first line, identified by Identifier.init
SrcInit ==
    /\ \E n \in 1..MaxColumns :
          /\ csv_fields \in [1..n -> {init_possible_types(FALSE, << >>, vals) :
                                         vals \in ColumnSamples}]
          /\ first_line_fields = SubSeq(ColumnNames, 1, n)
    /\ asked = NoCall
    /\ PlanIdle /\ IdentIdle /\ DialIdle /\ WebIdle /\ RowIdle /\ CtlIdle
    /\ OutIdle /\ CodecIdle
    /\ LifeIdle
    /\ ChainIdle
    /\ SmpIdle
    /\ AgainIdle

src_frame ==
    UNCHANGED <<planVars, identVars, dialVars, webVars, rowVars, ctlVars, outVars,
                codecVars,
                lifeVars,
                chainVars,
                smpVars,
                againVars>>

\* a call of get_fitting_source_i
GetFittingSourceI ==
    \E new_field \in TypeSet, try_hard \in BOOLEAN :
        /\ asked' = [op |-> "get_fitting_source_i", new_field |-> new_field,
                     try_hard |-> try_hard, fields |-> csv_fields,
                     result |-> get_fitting_source_i(csv_fields, new_field, try_hard)]
        /\ UNCHANGED <<csv_fields, first_line_fields>>
        /\ src_frame

\* [t._init() for t in types], for one Type
Type_init ==
    \E t \in TypeSet :
        /\ asked' = [op |-> "_init", type |-> t,
                     is_plaintext_derivable |-> is_plaintext_derivable(t)]
        /\ UNCHANGED <<csv_fields, first_line_fields>>
        /\ src_frame

\* del types[key]
del_item(pt, key) == SelectSeq(pt, LAMBDA e : e.type # key)

\* get_fields_autodetection, what it leaves in field.possible_types of a field read
\* from the file: types = field.possible_types is the field's own dict, anyIP is
\* deleted next to ip or portIP, and url next to wrongURL
autodetection_types(pt) ==
    LET types_1 == IF "anyIP" \in keys(pt) /\ ("ip" \in keys(pt) \/ "portIP" \in keys(pt))
                   THEN del_item(pt, "anyIP") ELSE pt
    IN  IF "url" \in keys(types_1) /\ "wrongURL" \in keys(types_1)
        THEN del_item(types_1, "url") ELSE types_1

\* SourceParser.get_fields_autodetection: the Types named in the report, per field
GetFieldsAutodetection ==
    /\ asked.op # "get_fields_autodetection"
    /\ csv_fields' = [i \in DOMAIN csv_fields |-> autodetection_types(csv_fields[i])]
    /\ asked' = [op |-> "get_fields_autodetection", fields |-> csv_fields,
                 result |-> [i \in DOMAIN csv_fields |->
                                TypesOf(autodetection_types(csv_fields[i]))]]
    /\ UNCHANGED first_line_fields
    /\ src_frame

\* what the user may give for COLUMN: the number of a column, or a name
ColumnArgs == {"0", "1", "2", "3", "4", "a", "b", "z"}

\* str.isdigit() for the arguments at hand
isdigit(column) == \E n \in 0..9 : ToString(n) = column

\* int(column)
int(column) == CHOOSE n \in 0..9 : ToString(n) = column

\* list.index(x), from 0
index(list, x) == (CHOOSE k \in 1..Len(list) : list[k] = x) - 1

\* no column: the None that get_column_i returns
NoColumn == [found |-> FALSE, i |-> 0]

\* Identifier.get_column_i(column): the number less one, or the place of the name
\* on the first line, or None
get_column_i(names, column) ==
    IF isdigit(column) THEN [found |-> TRUE, i |-> int(column) - 1]
    ELSE IF column \in Range(names) THEN [found |-> TRUE, i |-> index(names, column)]
    ELSE NoColumn

\* self.csv.fields[i] of Controller's --delete: the field Python's list picks for an
\* index, counted from the end for a negative one; IndexError or TypeError else
fields_item(n, col) ==
    IF ~col.found THEN [raised |-> TRUE, i |-> 0]
    ELSE IF 0 <= col.i /\ col.i < n THEN [raised |-> FALSE, i |-> col.i]
    ELSE IF -n <= col.i /\ col.i < 0 THEN [raised |-> FALSE, i |-> n + col.i]
    ELSE [raised |-> TRUE, i |-> 0]

\* a call of get_column_i, as that of --delete: fields[get_column_i(c)].is_chosen = False
GetColumnI ==
    \E column \in ColumnArgs :
        /\ asked' = [op |-> "get_column_i", column |-> column,
                     columns |-> Len(first_line_fields),
                     result |-> get_column_i(first_line_fields, column),
                     unchosen |-> fields_item(Len(first_line_fields),
                                              get_column_i(first_line_fields, column))]
        /\ UNCHANGED <<csv_fields, first_line_fields>>
        /\ src_frame

SrcNext == GetFittingSourceI \/ Type_init \/ GetFieldsAutodetection \/ GetColumnI

SpecSource == SrcInit /\ [][SrcNext]_vars

\* the distance of the closest candidate Type of a column to the target
best_distance(pt, target) ==
    LET dist == dijkstra(target)
    IN  CHOOSE d \in 0..Len(types) :
            /\ \E t \in keys(pt) \cap DOMAIN dist : dist[t] = d
            /\ \A t \in keys(pt) \cap DOMAIN dist : dist[t] >= d

\* the highest confidence the column has for a Type at that distance
best_confidence(pt, target) ==
    LET dist == dijkstra(target)
        best == {t \in keys(pt) \cap DOMAIN dist : dist[t] = best_distance(pt, target)}
    IN  CHOOSE c \in 0..3 :
            /\ \E t \in best : score_in(pt, t) = c
            /\ \A t \in best : score_in(pt, t) <= c

\* the columns returned are candidates: each holds a Type the target is computable from
FoundByType ==
    /\ asked.op = "get_fitting_source_i"
    /\ \A k \in 1..Len(asked.result) :
          keys(asked.fields[asked.result[k] + 1]) \cap DOMAIN dijkstra(asked.new_field) # {}

\* C21, its first half: a column whose best Type is closer to the target comes first
C21_CloserFirst ==
    FoundByType =>
        \A a, b \in 1..Len(asked.result) :
            a < b => best_distance(asked.fields[asked.result[a] + 1], asked.new_field)
                        <= best_distance(asked.fields[asked.result[b] + 1], asked.new_field)

\* C21: the columns are returned best-first: the closer best Type first, and for an
\* equal distance the higher confidence first
C21_BestFirst ==
    FoundByType =>
        \A a, b \in 1..Len(asked.result) :
            a < b =>
                LET pa == asked.fields[asked.result[a] + 1]
                    pb == asked.fields[asked.result[b] + 1]
                    t  == asked.new_field
                IN  \/ best_distance(pa, t) < best_distance(pb, t)
                    \/ /\ best_distance(pa, t) = best_distance(pb, t)
                       /\ best_confidence(pa, t) >= best_confidence(pb, t)

\* the Types a set of Types leads to along the edges of the graph
RECURSIVE reach(_)
reach(S) ==
    LET N == S \cup {b \in TypeSet : \E a \in S : <<a, b>> \in graph_edges}
    IN  IF N = S THEN S ELSE reach(N)

\* the Types at the end of a path of one edge or more from plaintext
FromPlaintext == reach({b \in TypeSet : <<"plaintext", b>> \in graph_edges})

\* C24 as stated: is_plaintext_derivable is true exactly when a path leads from
\* plaintext to the Type
C24_DerivableIffPath ==
    asked.op = "_init" => (asked.is_plaintext_derivable <=> asked.type \in FromPlaintext)

\* C24 amended: for every Type but plaintext the flag is true exactly when a path
\* leads from plaintext to it; the flag of plaintext itself is false
C24_DerivableIffPathButPlaintext ==
    asked.op = "_init" =>
        IF asked.type = "plaintext" THEN ~asked.is_plaintext_derivable
        ELSE asked.is_plaintext_derivable <=> asked.type \in FromPlaintext

\* plaintext, which the path over base64 leads back to, is not flagged
C24_Witness ==
    /\ asked.op = "_init"
    /\ asked.type = "plaintext"
    /\ "plaintext" \in FromPlaintext
    /\ ~asked.is_plaintext_derivable

\* C28 as stated: get_fields_autodetection leaves the possible_types of every
\* field as they were
C28_ReportLeavesTypes ==
    asked.op = "get_fields_autodetection" => csv_fields = asked.fields

\* C28, what is to follow from it: get_fitting_type and get_fitting_source_i answer
\* after the report as they did before it
C28_SameAnswersAfterReport ==
    asked.op = "get_fields_autodetection" =>
        \A target \in TypeSet, flag \in BOOLEAN :
            /\ get_fitting_source_i(csv_fields, target, flag)
                  = get_fitting_source_i(asked.fields, target, flag)
            /\ \A i \in DOMAIN csv_fields :
                  get_fitting_type(csv_fields[i], target, flag)
                     = get_fitting_type(asked.fields[i], target, flag)

\* C30 as stated: get_column_i returns None or an index i with 0 <= i < the number of
\* columns; a number n selects n - 1 when 1 <= n <= the number of columns and no
\* column otherwise
C30_ColumnInRange ==
    asked.op = "get_column_i" =>
        /\ asked.result.found => (0 <= asked.result.i /\ asked.result.i < asked.columns)
        /\ isdigit(asked.column) =>
              IF 1 <= int(asked.column) /\ int(asked.column) <= asked.columns
              THEN asked.result = [found |-> TRUE, i |-> int(asked.column) - 1]
              ELSE asked.result = NoColumn

\* C30 for names and for the numbers of the columns there are: the index is that of
\* the column, and a name the first line does not hold gives None
C30_NamesAndNumbersInRange ==
    (asked.op = "get_column_i" /\
     (isdigit(asked.column) =>
         (1 <= int(asked.column) /\ int(asked.column) <= asked.columns))) =>
        /\ asked.result.found => (0 <= asked.result.i /\ asked.result.i < asked.columns)
        /\ isdigit(asked.column) => asked.result.i = int(asked.column) - 1

----------------------------------------------------------------------------
(* The stages of a SourceParser: __init__, prepare, the Controller, run_analysis *)

Delimiters == {",", ";", "|"}

\* SourceParser.__init__ up to prepare(): the sample is read, nothing is resolved
NewParser(input) ==
    [input |-> input, dialect |-> None, has_header |-> None, is_formatted |-> FALSE,
     is_single_value |-> FALSE, is_processable |-> FALSE, is_analyzed |-> FALSE,
     cancelled |-> FALSE, finished |-> FALSE]

LifeInit ==
    /\ parser \in {NewParser(input) : input \in {"file", "stdin"}}
    /\ at = "sampled"
    /\ PlanIdle /\ IdentIdle /\ DialIdle /\ WebIdle /\ RowIdle /\ CtlIdle
    /\ OutIdle /\ CodecIdle /\ SrcIdle
    /\ ChainIdle
    /\ SmpIdle
    /\ AgainIdle

life_frame ==
    UNCHANGED <<planVars, identVars, dialVars, webVars, rowVars, ctlVars, outVars,
                codecVars, srcVars,
                chainVars,
                smpVars,
                againVars>>

\* prepare: if self.size == 0: quit()
prepare_empty ==
    /\ at = "sampled"
    /\ at' = "quit"
    /\ UNCHANGED parser
    /\ life_frame

\* prepare: the input text seems a single cell (or single processing is forced):
\* dialect = csv.unix_dialect, has_header = False, is_single_value = True; return
prepare_single_value ==
    /\ at = "sampled"
    /\ parser.input = "stdin"
    /\ parser' = [parser EXCEPT !.dialect = ",", !.has_header = "False",
                                !.is_single_value = TRUE]
    /\ at' = "prepared"
    /\ life_frame

\* prepare: guess_dialect has answered and a dialogue raises Cancelled:
\* print("Cancelled."); return self
prepare_cancelled ==
    \E d \in Delimiters, h \in {"True", "False"} :
        /\ at = "sampled"
        /\ parser' = [parser EXCEPT !.dialect = d, !.has_header = h, !.cancelled = TRUE]
        /\ at' = "prepared"
        /\ life_frame

\* prepare: the dialect and the header are set, the fields are read and identified,
\* is_formatted = True
prepare_formatted ==
    \E d \in Delimiters, h \in {"True", "False"} :
        /\ at = "sampled"
        /\ parser' = [parser EXCEPT !.dialect = d, !.has_header = h,
                                    !.is_formatted = TRUE]
        /\ at' = "prepared"
        /\ life_frame

\* Controller.__init__: if self.csv.is_single_value: run_single_value(...); quit()
Controller_single_value ==
    /\ at = "prepared"
    /\ parser.is_single_value
    /\ at' = "quit"
    /\ UNCHANGED parser
    /\ life_frame

\* Controller.__init__: --delete and --field set is_processable, then the main menu
Controller_main_menu ==
    \E flagged \in BOOLEAN :
        /\ at = "prepared"
        /\ ~parser.is_single_value
        /\ parser' = [parser EXCEPT !.is_processable = flagged]
        /\ at' = "menu"
        /\ life_frame

\* a choice of the main menu that sets is_processable: choose_cols, add_column,
\* add_uniquing, add_filtering, add_splitting, add_dialect
menu_choice ==
    /\ at = "menu"
    /\ parser' = [parser EXCEPT !.is_processable = TRUE]
    /\ UNCHANGED at
    /\ life_frame

\* the main menu's "process" (offered if is_processable), or the csirt-incident
\* macro: Controller.process calls run_analysis, which calls _reset(hard=False) and
\* starts process_file
run_analysis_start ==
    /\ \/ at = "menu" /\ parser.is_processable
       \/ at = "prepared" /\ ~parser.is_single_value /\ ~parser.is_analyzed
    /\ parser' = [parser EXCEPT !.is_analyzed = FALSE, !.is_processable = FALSE,
                                !.finished = FALSE]
    /\ at' = "processing"
    /\ life_frame

\* run_analysis: process_file has returned, is_analyzed = True
run_analysis_end ==
    /\ at = "processing"
    /\ parser' = [parser EXCEPT !.is_analyzed = TRUE, !.finished = TRUE]
    /\ at' = "menu"
    /\ life_frame

\* Controller.close
close ==
    /\ at = "menu"
    /\ at' = "quit"
    /\ UNCHANGED parser
    /\ life_frame

LifeNext ==
    \/ prepare_empty
    \/ prepare_single_value
    \/ prepare_cancelled
    \/ prepare_formatted
    \/ Controller_single_value
    \/ Controller_main_menu
    \/ menu_choice
    \/ run_analysis_start
    \/ run_analysis_end
    \/ close

SpecLife == LifeInit /\ [][LifeNext]_vars

\* C22: rows are processed only when the dialect and the fields are resolved, the
\* file is analyzed only when a run has finished since the last reset, and a
\* cancelled or single-value preparation never leads to processing
C22_StagesInOrder ==
    /\ at = "processing" =>
          /\ parser.is_formatted
          /\ parser.dialect # None
          /\ parser.has_header # None
          /\ ~parser.cancelled
          /\ ~parser.is_single_value
    /\ (at # "idle" /\ parser.is_analyzed) => parser.finished

----------------------------------------------------------------------------
(* The value emitted for a computed field: run_single_value, Field.compute_preview *)

MaxSteps == 2        \* steps of a compiled chain

\* a step returns a string (port_ip_2_ip, ...) or a tuple (x, value), as the steps
\* from whois do: lambda x: (x, x.get[5])
StepKinds == {"str", "pair"}

\* what a tuple's second part may be: a text, the empty text, None
PairValues == {"CZ", "", None}

\* a result: a string, or a tuple whose first part is the step's argument
Str(v) == [tuple |-> FALSE, value |-> v]

Pair(v) == [tuple |-> TRUE, value |-> v]

\* str() of a result, the way a step sees its argument
repr(r) == IF r.tuple THEN "(x, " \o r.value \o ")" ELSE r.value

\* l(val): the step applied to the whole of val; v is the value a lookup answers
call(kind, val, v) ==
    IF kind = "pair" THEN Pair(v) ELSE Str("f(" \o repr(val) \o ")")

\* for l in methods: val = l(val): the values val takes, the cell first
RECURSIVE run_chain(_, _, _)
run_chain(methods_, val, vs) ==
    IF methods_ = << >> THEN <<val>>
    ELSE <<val>> \o run_chain(Tail(methods_), call(Head(methods_), val, Head(vs)),
                              Tail(vs))

\* a version that emits the result as it is
single_value_whole(val) == repr(val)

\* run_single_value: if type(val) is tuple: val = val[1]; data[field_name] = val
\* (a result that is no tuple is its own value)
single_value(val) == IF val.tuple THEN val.value ELSE repr(val)

\* run_single_value, append: the row shows a cross for None
single_value_row(val) == IF single_value(val) = None THEN "x" ELSE single_value(val)

\* bool(v) of a text or None
is_falsy(v) == v \in {"", None}

\* Field.compute_preview: if isinstance(c, tuple): c = c[1] or "unknown";
\* "..." when Config.get("compute_preview") is off
compute_preview(val, config) ==
    IF config
    THEN IF val.tuple THEN (IF is_falsy(val.value) THEN "unknown" ELSE val.value)
         ELSE val.value
    ELSE "..."

\* a field with its compiled chain, and the cell it is computed from
ChainInit ==
    /\ emit \in {[op |-> "get_methods", methods |-> m, cell |-> c] :
                    m \in SeqsUpTo(StepKinds, MaxSteps), c \in {"1.2.3.4", "1.2.3.4.80"}}
    /\ PlanIdle /\ IdentIdle /\ DialIdle /\ WebIdle /\ RowIdle /\ CtlIdle
    /\ OutIdle /\ CodecIdle /\ SrcIdle /\ LifeIdle
    /\ SmpIdle
    /\ AgainIdle

chain_frame ==
    UNCHANGED <<planVars, identVars, dialVars, webVars, rowVars, ctlVars, outVars,
                codecVars, srcVars, lifeVars,
                smpVars,
                againVars>>

\* SourceParser.run_single_value for the field
run_single_value ==
    \E vs \in [1..Len(emit.methods) -> PairValues], json \in BOOLEAN :
        /\ emit.op = "get_methods"
        /\ LET vals == run_chain(emit.methods, Str(emit.cell), vs)
               val  == vals[Len(vals)]
           IN  emit' = [op |-> "run_single_value", methods |-> emit.methods,
                        cell |-> emit.cell, answers |-> vs, json |-> json,
                        vals |-> vals,
                        out |-> IF json THEN single_value(val) ELSE single_value_row(val)]
        /\ chain_frame

\* Field.compute_preview for a line of the sample
ComputePreview ==
    \E vs \in [1..Len(emit.methods) -> PairValues], config \in BOOLEAN :
        /\ emit.op = "get_methods"
        /\ LET vals == run_chain(emit.methods, Str(emit.cell), vs)
           IN  emit' = [op |-> "compute_preview", methods |-> emit.methods,
                        cell |-> emit.cell, answers |-> vs, config |-> config,
                        vals |-> vals,
                        out |-> compute_preview(vals[Len(vals)], config)]
        /\ chain_frame

ChainNext == run_single_value \/ ComputePreview

SpecChain == ChainInit /\ [][ChainNext]_vars

\* the chain has run and its last result is a tuple
FinalIsPair ==
    /\ emit.op \in {"run_single_value", "compute_preview"}
    /\ emit.vals[Len(emit.vals)].tuple

\* every step was handed the whole of the result before it: a "str" step's result
\* is made of the whole argument
WholeResultForwarded ==
    \A k \in 1..Len(emit.methods) :
        emit.methods[k] = "str" => emit.vals[k + 1] = Str("f(" \o repr(emit.vals[k]) \o ")")

\* C23 as stated: the value emitted for a final tuple is the tuple's second part, in
\* the single-value output and in the preview
C23_PairValueEmitted ==
    (FinalIsPair /\ (emit.op = "run_single_value" => emit.json)
                 /\ (emit.op = "compute_preview" => emit.config))
        => /\ emit.out = emit.vals[Len(emit.vals)].value
           /\ WholeResultForwarded

\* C23 amended: the single-value output holds the tuple's second part; the preview
\* shows the second part, and "unknown" when the second part is empty or None; every
\* step receives the whole result of the step before it
C23_PairValueOrUnknown ==
    (FinalIsPair /\ (emit.op = "run_single_value" => emit.json)
                 /\ (emit.op = "compute_preview" => emit.config))
        => /\ emit.op = "run_single_value"
                => emit.out = emit.vals[Len(emit.vals)].value
           /\ emit.op = "compute_preview"
                => emit.out = IF emit.vals[Len(emit.vals)].value \in {"", None}
                              THEN "unknown"
                              ELSE emit.vals[Len(emit.vals)].value
           /\ WholeResultForwarded

\* a tuple went through a further step, and the last result is a tuple with an
\* empty second part, previewed
C23_Witness ==
    /\ emit.op = "compute_preview"
    /\ emit.config
    /\ emit.methods = <<"pair", "pair">>
    /\ emit.vals[3] = Pair("")
    /\ emit.out = "unknown"

----------------------------------------------------------------------------
(* The sample: Identifier.get_sample, SourceParser.set_stdin, Identifier.init *)

MaxFileLines == 13   \* lines of the source

\* the lines of a source, each named by its number
FileLines(n) == [i \in 1..n |-> i]

\* the first k elements of a sequence
first_k(seq, k) == SubSeq(seq, 1, IF Len(seq) < k THEN Len(seq) ELSE k)

\* Identifier.get_sample: every row is appended, `if i == 8: break` ends the loop
\* after the row of index 8
get_sample(rows) == first_k(rows, 8 + 1)

\* SourceParser.set_stdin: self.sample = self.stdin[:7]
set_stdin(stdin) == first_k(stdin, 7)

\* Identifier.init: s = sample[:1] if len(sample) == 1 else sample[1:]
init_rows(smp) == IF Len(smp) = 1 THEN SubSeq(smp, 1, 1) ELSE SubSeq(smp, 2, Len(smp))

\* a source of one line or more (prepare quits on an empty one)
SmpInit ==
    /\ sampling \in {[op |-> "source", kind |-> k, rows |-> FileLines(n)] :
                        k \in {"file", "stdin"}, n \in 1..MaxFileLines}
    /\ PlanIdle /\ IdentIdle /\ DialIdle /\ WebIdle /\ RowIdle /\ CtlIdle
    /\ OutIdle /\ CodecIdle /\ SrcIdle /\ LifeIdle /\ ChainIdle
    /\ AgainIdle

smp_frame ==
    UNCHANGED <<planVars, identVars, dialVars, webVars, rowVars, ctlVars, outVars,
                codecVars, srcVars, lifeVars, chainVars,
                againVars>>

\* SourceParser.__init__: get_sample(source_file), or set_stdin(stdin)
read_sample ==
    /\ sampling.op = "source"
    /\ sampling' = [op |-> "sampled", kind |-> sampling.kind, rows |-> sampling.rows,
                    sample |-> IF sampling.kind = "file" THEN get_sample(sampling.rows)
                               ELSE set_stdin(sampling.rows)]
    /\ smp_frame

\* SourceParser.prepare: has_header is set and sample_parsed is read, then
\* Identifier.init fills samples[i] for every column from the rows it takes
prepare_init ==
    \E hdr \in BOOLEAN :
        /\ sampling.op = "sampled"
        /\ sampling' = [op |-> "init", kind |-> sampling.kind, rows |-> sampling.rows,
                        sample |-> sampling.sample, has_header |-> hdr,
                        sample_parsed |-> SubSeq(sampling.sample, IF hdr THEN 2 ELSE 1,
                                                 Len(sampling.sample)),
                        scored |-> init_rows(sampling.sample)]
        /\ smp_frame

SmpNext == read_sample \/ prepare_init

SpecSample == SmpInit /\ [][SmpNext]_vars

\* C25: at most 7 values of a column are scored, and the first line is not among
\* them when the sample has more than one line
C25_AtMostSevenScored ==
    sampling.op = "init" =>
        /\ Len(sampling.scored) <= 7
        /\ Len(sampling.sample) > 1 => \A k \in 1..Len(sampling.scored) :
                                          sampling.scored[k] # 1

\* the second half alone: the first line is not scored when there are more lines
C25_FirstLineNotScored ==
    (sampling.op = "init" /\ Len(sampling.sample) > 1)
        => \A k \in 1..Len(sampling.scored) : sampling.scored[k] # 1

----------------------------------------------------------------------------
(* The replay of the ledger of unknown abusemails: resolve_unknown and *)
(* _resolve_again, with a session that ends amid the replay            *)

MaxUnknown == 3      \* IPs whose abusemail the analysis left unknown

\* the prefix an IP lies in: two IPs to a prefix
prefix_of(ip) == (ip + 1) \div 2

\* stats["ipsCzMissing"] and stats["czUnknownPrefixes"] for the IPs in S
stats_of(S) == [ipsCzMissing |-> S, czUnknownPrefixes |-> {prefix_of(ip) : ip \in S}]

\* the rows of the ledger in the order the analysis met them
in_order(S) ==
    CHOOSE seq \in [1..Cardinality(S) -> S] :
        \A i, j \in 1..Cardinality(S) : i < j => seq[i] < seq[j]

\* shutil.move(path, temp): os.rename, which replaces a file that is at temp
move(src, dst) == src

AgainInit ==
    /\ \E S \in SUBSET (1..MaxUnknown) :
          /\ path_file = IF S = {} THEN NoFile ELSE File(in_order(S))
          /\ stats = stats_of(S)
          /\ saved = stats_of(S)
    /\ running_tmp = NoFile
    /\ unknown_mode = FALSE
    /\ again_pc = "menu"
    /\ again_i = 0
    /\ returned = NotReturned
    /\ PlanIdle /\ IdentIdle /\ DialIdle /\ WebIdle /\ RowIdle /\ CtlIdle
    /\ OutIdle /\ CodecIdle /\ SrcIdle /\ LifeIdle /\ ChainIdle /\ SmpIdle

again_frame ==
    UNCHANGED <<planVars, identVars, dialVars, webVars, rowVars, ctlVars, outVars,
                codecVars, srcVars, lifeVars, chainVars, smpVars>>

\* resolve_unknown: "No unknown abusemails."
resolve_unknown_none ==
    /\ again_pc = "menu"
    /\ stats.ipsCzMissing = {}
    /\ returned' = [how |-> "none", before |-> stats]
    /\ UNCHANGED <<path_file, running_tmp, unknown_mode, stats, saved, again_pc, again_i>>
    /\ again_frame

\* resolve_unknown: the answer to "Should I proceed additional search" is no
resolve_unknown_declined ==
    /\ again_pc = "menu"
    /\ stats.ipsCzMissing # {}
    /\ returned' = [how |-> "declined", before |-> stats]
    /\ UNCHANGED <<path_file, running_tmp, unknown_mode, stats, saved, again_pc, again_i>>
    /\ again_frame

\* resolve_unknown: the answer is yes and move(path, temp) raises FileNotFoundError:
\* _resolve_again returns False and so does resolve_unknown
resolve_unknown_missing ==
    /\ again_pc = "menu"
    /\ stats.ipsCzMissing # {}
    /\ ~path_file.exists
    /\ stats' = NoStats
    /\ unknown_mode' = TRUE
    /\ returned' = [how |-> "missing", before |-> stats]
    /\ UNCHANGED <<path_file, running_tmp, saved, again_pc, again_i>>
    /\ again_frame

\* resolve_unknown: the answer is yes and the ledger is moved to the temporary file;
\* Processor.process_file(temp) starts
resolve_unknown_move ==
    /\ again_pc = "menu"
    /\ stats.ipsCzMissing # {}
    /\ path_file.exists
    /\ stats' = NoStats
    /\ unknown_mode' = TRUE
    /\ running_tmp' = move(path_file, running_tmp)
    /\ path_file' = NoFile
    /\ again_pc' = "process_file"
    /\ again_i' = 0
    /\ returned' = [how |-> "", before |-> stats]
    /\ UNCHANGED saved
    /\ again_frame

\* Processor.process_file(temp), a row: its abusemail is found now, or it is unknown
\* still and the row is written to the ledger and counted again
process_file_row ==
    \E found \in BOOLEAN :
        /\ again_pc = "process_file"
        /\ again_i < Len(running_tmp.rows)
        /\ again_i' = again_i + 1
        /\ LET ip == running_tmp.rows[again_i + 1]
           IN  IF found
               THEN UNCHANGED <<path_file, stats>>
               ELSE /\ path_file' = File(Append(path_file.rows, ip))
                    /\ stats' = stats_of(stats.ipsCzMissing \cup {ip})
        /\ UNCHANGED <<running_tmp, unknown_mode, saved, again_pc, returned>>
        /\ again_frame

\* _resolve_again after process_file: Path(temp).unlink(), return True; and
\* resolve_unknown: Whois.unknown_mode = False
resolve_unknown_completed ==
    /\ again_pc = "process_file"
    /\ again_i = Len(running_tmp.rows)
    /\ running_tmp' = NoFile
    /\ unknown_mode' = FALSE
    /\ again_pc' = "menu"
    /\ again_i' = 0
    /\ returned' = [how |-> "completed", before |-> returned.before]
    /\ UNCHANGED <<path_file, stats, saved>>
    /\ again_frame

\* the session ends amid process_file; the next one loads the cache file
interrupted ==
    /\ again_pc = "process_file"
    /\ again_i < Len(running_tmp.rows)
    /\ stats' = saved
    /\ unknown_mode' = FALSE
    /\ again_pc' = "menu"
    /\ again_i' = 0
    /\ returned' = NotReturned
    /\ UNCHANGED <<path_file, running_tmp, saved>>
    /\ again_frame

\* Controller.close: self.wrapper.save(), exit(0); the next session loads the cache
\* file
Controller_close ==
    /\ again_pc = "menu"
    /\ saved # stats \/ unknown_mode \/ returned # NotReturned
    /\ saved' = stats
    /\ unknown_mode' = FALSE
    /\ returned' = NotReturned
    /\ UNCHANGED <<path_file, running_tmp, stats, again_pc, again_i>>
    /\ again_frame

AgainNext ==
    \/ resolve_unknown_none \/ resolve_unknown_declined \/ resolve_unknown_missing
    \/ resolve_unknown_move \/ process_file_row \/ resolve_unknown_completed
    \/ interrupted \/ Controller_close

SpecAgain == AgainInit /\ [][AgainNext]_vars

\* C26 as stated: whenever resolve_unknown has returned, whichever way, Whois.unknown_mode
\* is false; and when it returned because the ledger file is missing, the statistics
\* of unresolved IPs and prefixes are what they were before the call
C26_UnknownModeOffOnReturn ==
    returned.how # "" =>
        /\ ~unknown_mode
        /\ returned.how = "missing" => stats = returned.before

\* a replay that was completed leaves the unknown mode off
C26_OffWhenCompleted ==
    returned.how = "completed" => ~unknown_mode

\* C27 as stated: a .running.tmp file that an interrupted replay left is not
\* overwritten and not deleted by a later replay whose rows were not streamed again
C27_LeftoverKept ==
    [][(again_pc = "menu" /\ running_tmp.exists) => running_tmp' = running_tmp]_vars

\* the rows that fail during a replay go to the ledger, the temporary file is as it
\* was while it is streamed
C27_FailingRowsToLedger ==
    [][(again_pc = "process_file" /\ again_pc' = "process_file")
          => running_tmp' = running_tmp]_vars

----------------------------------------------------------------------------
(* guess_dialect as a function of its sample *)

\* the delimiter guess_dialect returns for a sample when no call came before it:
\* csv.unix_dialect.delimiter is ',' as the csv module defines it
first_guess(smp) ==
    LET fb    == fallback_delimiter(fallback_line(smp))
        found == IF sniff(smp) # "" THEN sniff(smp)
                 ELSE IF fb # "" THEN fb ELSE ","
    IN  resolve_delimiter(found, join(smp))

\* C29 as stated: the delimiter guess_dialect returns for a sample is the one it
\* returns when nothing was called before, and after a fallback the header flag is
\* False, whatever guess_dialect and prepare did to earlier sources
C29_SampleDecides ==
    guess.op = "guess_dialect" =>
        /\ guess.delimiter = first_guess(guess.sample)
        /\ guess.via = "fallback" => ~guess.has_header

\* C29 where the fallback finds a delimiter, or the Sniffer does: the sample decides
C29_SampleDecidesWhenFound ==
    (guess.op = "guess_dialect" /\
     (guess.via = "sniffer" \/ fallback_delimiter(fallback_line(guess.sample)) # "")) =>
        guess.delimiter = first_guess(guess.sample)

====
